---------------------------- MODULE Spec2Model ----------------------------
(***************************************************************************)
(* A model of the member scraper of compass-interface-core:                *)
(*   - the interval reducer (_reduce_date_list / _membership_duration),    *)
(*   - the tab parsers of PeopleScraper (permission check, Roles tab,     *)
(*     Permits tab, Training tab) and the role popup (get_roles_detail),   *)
(*   - the address parser (_process_address),                              *)
(*   - the status extractors (_extract_review_date and its siblings),      *)
(*   - cast (src/utility.py) and the tab request (_get_member_profile_tab),*)
(*   - CompassLogon (src/compass_logon.py): sessions, requests, headers,   *)
(*   - hash_code (src/utility.py) and Reports.get_report.                  *)
(* Dates are day ordinals (integers); strings are tuples of one-character  *)
(* strings, so that splitting, lower-casing and searching are computed.    *)
(***************************************************************************)
EXTENDS Integers, Sequences, FiniteSets, TLC

VARIABLES
    dl,         \* the date pairs given to _membership_duration
    pending,    \* the argument of the current _reduce_date_list level
    emitted,    \* the intervals yielded so far
    rpc,        \* where the reducer is: start, pass, exhausted, done, IndexError
    duration,   \* the result of _membership_duration once rpc = "done"
    page,       \* the document the portal answers for a tab of the member
    popup,      \* the document the portal answers for the role popup
    today,      \* the current date
    debug,      \* Settings.debug
    call,       \* the latest call of a parser and its outcome
    prev,       \* an earlier call, as its caller kept it
    addr_in,    \* the text given to _process_address
    addr_out,   \* what _process_address answered
    given,      \* the argument of a helper function called on its own
    ret,        \* what that helper returned or raised
    logon,      \* a CompassLogon object, its sessions and the requests it sent
    report      \* a call of Reports.get_report and the steps it has run

vars ==
    <<dl, pending, emitted, rpc, duration, page, popup, today, debug, call, prev, addr_in, addr_out,
      given, ret, logon, report>>

None == "None"

-----------------------------------------------------------------------------
(* Bounds *)
MaxDay == 5
MaxPairs == 3

Days == 1..MaxDay
DatePairs == {p \in Days \X Days : p[1] <= p[2]}
DateLists == UNION {[1..n -> DatePairs] : n \in 0..MaxPairs}

-----------------------------------------------------------------------------
(* _reduce_date_list *)

\* the order of Python tuples, as sorted() uses it
PairLess(a, b) == a[1] < b[1] \/ (a[1] = b[1] /\ a[2] < b[2])

\* the pairs in the order they were given
SortedNot(s) == s

\* sorted(dl)
Sorted(s) == SortSeq(s, PairLess)

Abs(n) == IF n < 0 THEN -n ELSE n
Max(a, b) == IF a >= b THEN a ELSE b
Min(a, b) == IF a <= b THEN a ELSE b

\* the body of the for loop without the branch that extends the latest end
ScanStepNoExtend(st, pair, i) ==
    LET start == pair[1]
        end == pair[2]
    IN  IF start < st.start_ /\ end > st.end_
          THEN [st EXCEPT !.start_ = start, !.end_ = end]
        ELSE IF end >= st.start_ /\ st.start_ > start
          THEN [st EXCEPT !.start_ = start]
        ELSE IF start >= st.start_ /\ end <= st.end_
          THEN st
        ELSE IF Abs(st.end_ - start) = 1 \/ Abs(st.start_ - end) = 1
          THEN [st EXCEPT !.end_ = Max(end, st.end_), !.start_ = Min(start, st.start_)]
        ELSE [st EXCEPT !.unused_values = @ \cup {i}]

\* the body of the for loop without the adjacency branch
ScanStepNoAdjacent(st, pair, i) ==
    LET start == pair[1]
        end == pair[2]
    IN  IF start < st.start_ /\ end > st.end_
          THEN [st EXCEPT !.start_ = start, !.end_ = end]
        ELSE IF start <= st.end_ /\ st.end_ < end
          THEN [st EXCEPT !.end_ = end]
        ELSE IF end >= st.start_ /\ st.start_ > start
          THEN [st EXCEPT !.start_ = start]
        ELSE IF start >= st.start_ /\ end <= st.end_
          THEN st
        ELSE [st EXCEPT !.unused_values = @ \cup {i}]

\* the body of the for loop: one pair against the running (start_, end_)
ScanStep(st, pair, i) ==
    LET start == pair[1]
        end == pair[2]
    IN  IF start < st.start_ /\ end > st.end_
          THEN [st EXCEPT !.start_ = start, !.end_ = end]
        ELSE IF start <= st.end_ /\ st.end_ < end
          THEN [st EXCEPT !.end_ = end]
        ELSE IF end >= st.start_ /\ st.start_ > start
          THEN [st EXCEPT !.start_ = start]
        ELSE IF start >= st.start_ /\ end <= st.end_
          THEN st
        ELSE IF Abs(st.end_ - start) = 1 \/ Abs(st.start_ - end) = 1
          THEN [st EXCEPT !.end_ = Max(end, st.end_), !.start_ = Min(start, st.start_)]
        ELSE [st EXCEPT !.unused_values = @ \cup {i}]

RECURSIVE Scan(_, _, _)
Scan(sdl, i, st) ==
    IF i > Len(sdl) THEN st ELSE Scan(sdl, i + 1, ScanStep(st, sdl[i], i))

\* the pairs of sdl whose index is in idx, but for the last of them
RECURSIVE PickButLast(_, _, _)
PickButLast(sdl, idx, i) ==
    IF i >= Len(sdl) THEN <<>>
    ELSE (IF i \in idx THEN <<sdl[i]>> ELSE <<>>) \o PickButLast(sdl, idx, i + 1)

\* the pairs of sdl whose index is in idx, in order
RECURSIVE Pick(_, _, _)
Pick(sdl, idx, i) ==
    IF i > Len(sdl) THEN <<>>
    ELSE (IF i \in idx THEN <<sdl[i]>> ELSE <<>>) \o Pick(sdl, idx, i + 1)

\* one level of _reduce_date_list on a non-empty argument: the interval it
\* yields and the argument of the recursive call (empty: no recursive call)
ReducePassOf(arg) ==
    LET sdl == Sorted(arg)
        st == Scan(sdl, 1, [start_ |-> sdl[1][1], end_ |-> sdl[1][2], unused_values |-> {}])
    IN  [range |-> <<st.start_, st.end_>>, rest |-> Pick(sdl, st.unused_values, 1)]

\* every interval _reduce_date_list yields for a non-empty argument
RECURSIVE ReduceDateList(_)
ReduceDateList(arg) ==
    LET p == ReducePassOf(arg)
    IN  <<p.range>> \o (IF p.rest = <<>> THEN <<>> ELSE ReduceDateList(p.rest))

RECURSIVE SumDays(_)
SumDays(ranges) ==
    IF ranges = <<>> THEN 0
    ELSE (ranges[1][2] - ranges[1][1]) + 1 + SumDays(Tail(ranges))

\* 365.2425 days per year, in 1/10000 of a day
DaysPerYearE4 == 3652425

\* _membership_duration: days / 365.2425 as the fraction num / den
YearsOfDays(days) == [num |-> days * 10000, den |-> DaysPerYearE4]

-----------------------------------------------------------------------------
(* The reducer as a state machine: one step per recursion level *)

InitReduce ==
    /\ dl \in DateLists
    /\ pending = dl
    /\ emitted = <<>>
    /\ rpc = "start"
    /\ duration = None
    /\ page = <<>>
    /\ popup = <<>>
    /\ today = 0
    /\ debug = FALSE
    /\ call = <<>>
    /\ prev = <<>>
    /\ addr_in = <<>>
    /\ addr_out = <<>>
    /\ given = <<>>
    /\ ret = <<>>
    /\ logon = <<>>
    /\ report = <<>>

\* sdl[0] on an empty list
ReduceEmpty ==
    /\ rpc = "start"
    /\ pending = <<>>
    /\ rpc' = "IndexError"
    /\ UNCHANGED <<dl, pending, emitted, duration, page, popup, today, debug, call, prev, addr_in, addr_out, given, ret, logon, report>>

ReducePass ==
    /\ rpc \in {"start", "pass"}
    /\ pending # <<>>
    /\ LET p == ReducePassOf(pending)
       IN  /\ emitted' = Append(emitted, p.range)
           /\ pending' = p.rest
           /\ rpc' = IF p.rest = <<>> THEN "exhausted" ELSE "pass"
    /\ UNCHANGED <<dl, duration, page, popup, today, debug, call, prev, addr_in, addr_out, given, ret, logon, report>>

MembershipDuration ==
    /\ rpc = "exhausted"
    /\ duration' = YearsOfDays(SumDays(emitted))
    /\ rpc' = "done"
    /\ UNCHANGED <<dl, pending, emitted, page, popup, today, debug, call, prev, addr_in, addr_out, given, ret, logon, report>>

NextReduce == ReduceEmpty \/ ReducePass \/ MembershipDuration

SpecReduce == InitReduce /\ [][NextReduce]_vars

-----------------------------------------------------------------------------
(* Claims about the reducer *)

Covered(pairs) == {d \in 0..(MaxDay + 1) : \E k \in 1..Len(pairs) : pairs[k][1] <= d /\ d <= pairs[k][2]}

\* C1: for a non-empty list of pairs with start <= end, the days summed over
\* the emitted intervals are the number of distinct days of the union of the
\* input, and the duration is that number divided by 365.2425.
C1_DaysAreUnion ==
    /\ rpc \in {"exhausted", "done"} => SumDays(emitted) = Cardinality(Covered(dl))
    /\ rpc = "done" =>
          /\ duration.num = 10000 * Cardinality(Covered(dl))
          /\ duration.den = 3652425
          /\ duration = YearsOfDays(SumDays(ReduceDateList(dl)))

C1_Witness ==
    /\ rpc = "done"
    /\ Len(dl) = 3
    /\ \E i, j \in 1..3 : i # j /\ dl[i][1] < dl[j][1] /\ dl[j][1] <= dl[i][2] /\ dl[i][2] < dl[j][2]
    /\ Len(emitted) = 2

\* a reference sort-and-sweep merge: overlapping or adjacent intervals merge
RECURSIVE Sweep(_, _, _)
Sweep(sdl, i, cur) ==
    IF i > Len(sdl) THEN <<cur>>
    ELSE IF sdl[i][1] <= cur[2] + 1
      THEN Sweep(sdl, i + 1, <<cur[1], Max(cur[2], sdl[i][2])>>)
      ELSE <<cur>> \o Sweep(sdl, i + 1, sdl[i])

SweepMerge(pairs) == LET sdl == Sorted(pairs) IN Sweep(sdl, 2, sdl[1])

\* C2: the emitted intervals are those of the reference sort-and-sweep merge:
\* pairwise disjoint, never overlapping or 1 day apart, covering the union.
C2_IsSweepMerge ==
    rpc \in {"exhausted", "done"} =>
        /\ emitted = SweepMerge(dl)
        /\ \A i, j \in 1..Len(emitted) : i < j => emitted[i][2] + 1 < emitted[j][1]
        /\ \A i \in 1..Len(emitted) : emitted[i][1] <= emitted[i][2]
        /\ Covered(emitted) = Covered(dl)

\* two adjacent inputs merged into one interval, a gap kept apart
C2_Witness ==
    /\ rpc = "done"
    /\ \E i, j \in 1..Len(dl) : dl[j][1] = dl[i][2] + 1
    /\ \E i \in 1..Len(dl) : (dl[i][1] - 1) \notin Covered(dl) /\ (dl[i][1] - 2) \in Covered(dl)
    /\ Len(emitted) = 2

-----------------------------------------------------------------------------
(* Strings: tuples of characters *)

NON_VOLUNTEER_TITLES == {
    <<"g", "r", "o", "u", "p", " ", "o", "c", "c", "a", "s", "i", "o", "n", "a", "l", " ", "h", "e", "l", "p", "e", "r">>,
    <<"g", "r", "o", "u", "p", " ", "o", "c", "c", "a", "s", "i", "o", "n", "a", "l", " ", "h", "e", "l", "p", "e", "r", ".">>,
    <<"d", "i", "s", "t", "r", "i", "c", "t", " ", "o", "c", "c", "a", "s", "i", "o", "n", "a", "l", " ", "h", "e", "l", "p", "e", "r">>,
    <<"c", "o", "u", "n", "t", "y", " ", "o", "c", "c", "a", "s", "i", "o", "n", "a", "l", " ", "h", "e", "l", "p", "e", "r">>,
    <<"p", "v", "g">>,
    <<"o", "c", "c", "a", "s", "i", "o", "n", "a", "l", " ", "h", "e", "l", "p", "e", "r">>,
    <<"c", "o", "u", "n", "t", "y", " ", "s", "c", "o", "u", "t", " ", "c", "o", "u", "n", "c", "i", "l", " ", "m", "e", "m", "b", "e", "r">>,
    <<"c", "o", "u", "n", "t", "y", " ", "s", "c", "o", "u", "t", " ", "c", "o", "u", "n", "c", "i", "l", " ", "m", "e", "m", "b", "e", "r", " ", "-", " ", "n", "o", "m", "i", "n", "a", "t", "e", "d", " ", "r", "e", "p", "r", "e", "s", "e", "n", "t", "a", "t", "i", "v", "e">>,
    <<"c", "o", "u", "n", "t", "y", " ", "s", "c", "o", "u", "t", " ", "c", "o", "u", "n", "c", "i", "l", " ", "m", "e", "m", "b", "e", "r", " ", "-", " ", "n", "o", "m", "i", "n", "a", "t", "e", "d", " ", "y", "o", "u", "t", "h", " ", "r", "e", "p", "r", "e", "s", "e", "n", "t", "a", "t", "i", "v", "e">>,
    <<"c", "o", "u", "n", "t", "y", " ", "s", "c", "o", "u", "t", " ", "c", "o", "u", "n", "c", "i", "l", " ", "m", "e", "m", "b", "e", "r", " ", "-", " ", "n", "o", "m", "i", "n", "a", "t", "e", "d", " ", "m", "e", "m", "b", "e", "r", " ", "(", "1", "8", "-", "2", "4", ")">>,
    <<"d", "i", "s", "t", "r", "i", "c", "t", " ", "s", "t", "a", "f", "f">>,
    <<"c", "o", "u", "n", "t", "y", " ", "s", "t", "a", "f", "f">>,
    <<"n", "e", "t", "w", "o", "r", "k", " ", "m", "e", "m", "b", "e", "r">>,
    <<"s", "c", "o", "u", "t", " ", "n", "e", "t", "w", "o", "r", "k", " ", "m", "e", "m", "b", "e", "r">>,
    <<"d", "i", "s", "t", "r", "i", "c", "t", " ", "s", "c", "o", "u", "t", " ", "n", "e", "t", "w", "o", "r", "k">>,
    <<"d", "i", "s", "t", "r", "i", "c", "t", " ", "s", "c", "o", "u", "t", " ", "n", "e", "t", "w", "o", "r", "k", " ", "m", "e", "m", "b", "e", "r">>,
    <<"c", "o", "u", "n", "t", "y", " ", "s", "c", "o", "u", "t", " ", "n", "e", "t", "w", "o", "r", "k", " ", "m", "e", "m", "b", "e", "r">>
}

UpperToLower ==
    "A" :> "a" @@ "B" :> "b" @@ "C" :> "c" @@ "D" :> "d" @@ "E" :> "e" @@ "F" :> "f" @@
    "G" :> "g" @@ "H" :> "h" @@ "I" :> "i" @@ "J" :> "j" @@ "K" :> "k" @@ "L" :> "l" @@
    "M" :> "m" @@ "N" :> "n" @@ "O" :> "o" @@ "P" :> "p" @@ "Q" :> "q" @@ "R" :> "r" @@
    "S" :> "s" @@ "T" :> "t" @@ "U" :> "u" @@ "V" :> "v" @@ "W" :> "w" @@ "X" :> "x" @@
    "Y" :> "y" @@ "Z" :> "z"

S_helper == <<"h", "e", "l", "p", "e", "r">>

S_Full == <<"F", "u", "l", "l">>

S_Cancelled == <<"C", "a", "n", "c", "e", "l", "l", "e", "d">>

PrefixReviewDue == <<"F", "u", "l", "l", " ", "R", "e", "v", "i", "e", "w", " ", "D", "u", "e", " ">>

PrefixEnding == <<"F", "u", "l", "l", " ", "E", "n", "d", "i", "n", "g", " ">>

S_FullReviewDue04 == <<"F", "u", "l", "l", " ", "R", "e", "v", "i", "e", "w", " ", "D", "u", "e", " ", "0", "4", " ", "J", "a", "n", " ", "2", "0", "0", "0">>

S_Leader == <<"L", "e", "a", "d", "e", "r">>

S_Helper == <<"H", "e", "l", "p", "e", "r">>

S_DSN == <<"D", "i", "s", "t", "r", "i", "c", "t", " ", "S", "c", "o", "u", "t", " ", "N", "e", "t", "w", "o", "r", "k">>

S_DSNC == <<"D", "i", "s", "t", "r", "i", "c", "t", " ", "S", "c", "o", "u", "t", " ", "N", "e", "t", "w", "o", "r", "k", " ", "C", "o", "m", "m", "i", "s", "s", "i", "o", "n", "e", "r">>

D01 == <<"0", "1", " ", "J", "a", "n", " ", "2", "0", "0", "0">>

D03 == <<"0", "3", " ", "J", "a", "n", " ", "2", "0", "0", "0">>

S_Jan2000 == <<" ", "J", "a", "n", " ", "2", "0", "0", "0">>

Digits ==
    "0" :> 0 @@ "1" :> 1 @@ "2" :> 2 @@ "3" :> 3 @@ "4" :> 4 @@
    "5" :> 5 @@ "6" :> 6 @@ "7" :> 7 @@ "8" :> 8 @@ "9" :> 9

Whitespace == {" ", "\t", "\n", "\r"}

\* str.lower()
Lower(s) == [k \in 1..Len(s) |-> IF s[k] \in DOMAIN UpperToLower THEN UpperToLower[s[k]] ELSE s[k]]

\* needle in hay
Contains(hay, needle) ==
    \E k \in 1..(Len(hay) - Len(needle) + 1) : SubSeq(hay, k, k + Len(needle) - 1) = needle

\* str.startswith(prefix)
StartsWith(s, prefix) == Len(s) >= Len(prefix) /\ SubSeq(s, 1, Len(prefix)) = prefix

\* str.removeprefix(prefix)
RemovePrefix(s, prefix) == IF StartsWith(s, prefix) THEN SubSeq(s, Len(prefix) + 1, Len(s)) ELSE s

\* str.strip()
RECURSIVE LStrip(_)
LStrip(s) == IF s # <<>> /\ s[1] \in Whitespace THEN LStrip(Tail(s)) ELSE s
RECURSIVE RStrip(_)
RStrip(s) == IF s # <<>> /\ s[Len(s)] \in Whitespace THEN RStrip(SubSeq(s, 1, Len(s) - 1)) ELSE s
Strip(s) == RStrip(LStrip(s))

\* the day a "DD Jan 2000" text names (01 Jan 2000 is day 1)
DayOf(text) == 10 * Digits[text[1]] + Digits[text[2]]

\* parse (compass.core.utility) raises for a non-empty text that is no date;
\* the dates of the model are the "DD Jan 2000" texts
ParseFails(text) ==
    /\ text # <<>>
    /\ ~ (/\ Len(text) = 11
          /\ text[1] \in DOMAIN Digits
          /\ text[2] \in DOMAIN Digits
          /\ SubSeq(text, 3, 11) = S_Jan2000
          /\ DayOf(text) \in 1..31)

\* parse (compass.core.utility): None for the empty string, else the date, as
\* its day ordinal
parse(text) == IF text = <<>> \/ ParseFails(text) THEN <<>> ELSE <<DayOf(text)>>

\* _extract_review_date raises when parse does
ReviewDateFails(review_status) ==
    /\ StartsWith(review_status, PrefixReviewDue) \/ StartsWith(review_status, PrefixEnding)
    /\ ParseFails(RemovePrefix(RemovePrefix(review_status, PrefixReviewDue), PrefixEnding))

\* _extract_review_date: <<role_status, review_date>>
ExtractReviewDate(review_status) ==
    IF StartsWith(review_status, PrefixReviewDue) \/ StartsWith(review_status, PrefixEnding)
      THEN <<S_Full, parse(RemovePrefix(RemovePrefix(review_status, PrefixReviewDue), PrefixEnding))>>
      ELSE <<review_status, <<>>>>

-----------------------------------------------------------------------------
(* The tab pages and the tab parsers of PeopleScraper *)

\* Optional values are sequences: <<>> is None, <<v>> is the value v
Some(v) == <<v>>

\* the status/date extractors: _extract_review_date, _extract_disclosure_date
\* and the status rule of _process_role_data
PrefixDisclosureIssued == <<"D", "i", "s", "c", "l", "o", "s", "u", "r", "e", " ", "I", "s", "s", "u", "e", "d", " ", ":", " ">>

S_DisclosureIssued == <<"D", "i", "s", "c", "l", "o", "s", "u", "r", "e", " ", "I", "s", "s", "u", "e", "d">>

PrefixRoleReviewDue == <<"F", "u", "l", "l", " ", "(", "R", "e", "v", "i", "e", "w", " ", "D", "u", "e", ":", " ">>

PrefixRoleEnding == <<"F", "u", "l", "l", " ", "(", "E", "n", "d", "i", "n", "g", ":", " ">>

S_Pending == <<"P", "e", "n", "d", "i", "n", "g">>

S_abc == <<"a", "b", "c">>

S_RParen == <<")">>

\* what a call of an extractor comes to: the pair it returns, or the error of
\* parse; parsed is the text parse was called with, if it was called
Returned(fn, status, date, parsed) ==
    [fn |-> fn, kind |-> "returned", status |-> status, date |-> date, parsed |-> parsed]

Raised(fn, parsed) ==
    [fn |-> fn, kind |-> "ParseError", status |-> <<>>, date |-> <<>>, parsed |-> parsed]

NoRet == [fn |-> "none", kind |-> "none", status |-> <<>>, date |-> <<>>, parsed |-> <<>>]

ParseCall(fn, status, text) ==
    IF ParseFails(text) THEN Raised(fn, Some(text)) ELSE Returned(fn, status, parse(text), Some(text))

\* review_status.removeprefix("Full Review Due ").removeprefix("Full Ending ")
ReviewDateText(review_status) ==
    RemovePrefix(RemovePrefix(review_status, PrefixReviewDue), PrefixEnding)

\* _extract_review_date as a call
ReviewDateCall(review_status) ==
    IF StartsWith(review_status, PrefixReviewDue) \/ StartsWith(review_status, PrefixEnding)
      THEN ParseCall("_extract_review_date", Some(S_Full), ReviewDateText(review_status))
      ELSE Returned("_extract_review_date", Some(review_status), <<>>, <<>>)

\* the status kept as it is, the empty one too
DisclosureStatusVerbatim(disclosure_status) == Some(disclosure_status)

\* disclosure_status or None
DisclosureStatusOrNone(disclosure_status) ==
    IF disclosure_status = <<>> THEN <<>> ELSE Some(disclosure_status)

\* _extract_disclosure_date as a call
DisclosureDateCall(disclosure_status) ==
    IF StartsWith(disclosure_status, PrefixDisclosureIssued)
      THEN ParseCall("_extract_disclosure_date", Some(S_DisclosureIssued),
                     RemovePrefix(disclosure_status, PrefixDisclosureIssued))
      ELSE Returned("_extract_disclosure_date", DisclosureStatusOrNone(disclosure_status), <<>>, <<>>)

\* str.rstrip(")")
RECURSIVE RStripParen(_)
RStripParen(s) ==
    IF s # <<>> /\ s[Len(s)] = ")" THEN RStripParen(SubSeq(s, 1, Len(s) - 1)) ELSE s

\* role_status and review_date of _process_role_data as a call
RoleDataStatusCall(status_with_review) ==
    IF StartsWith(status_with_review, PrefixRoleReviewDue) \/ StartsWith(status_with_review, PrefixRoleEnding)
      THEN ParseCall("_process_role_data", Some(S_Full),
                     RStripParen(RemovePrefix(RemovePrefix(status_with_review, PrefixRoleReviewDue),
                                              PrefixRoleEnding)))
      ELSE Returned("_process_role_data", Some(status_with_review), <<>>, <<>>)

AccessDeniedCN == "./ScoutsPortal.aspx?Invalid=AccessCN"
ProfileFormAction == "./MemberProfile.aspx"
AccessDeniedPopup == "./ScoutsPortal.aspx?Invalid=Access"
PopupFormAction == "./AssignNewRole.aspx"

MaxRows == 2

MemberNums == {101, 102}

\* the current date: datetime.date.today()
Todays == 3..4

\* what a row of the Roles table can hold: title, class, status, start and end
RoleTitles == {S_DSN, S_DSNC}
RoleClasses == {S_Leader, S_Helper}
RoleStatusTexts == {S_FullReviewDue04, S_Cancelled}
RoleSpans == {<<D01, D01>>, <<D03, <<>>>>}
RoleContents ==
    [title : RoleTitles, class : RoleClasses, status : RoleStatusTexts, span : RoleSpans]

\* the rows of the pages that are parsed more than once: every volunteer row,
\* and one row that is not a volunteer's
FewContents ==
    {c \in RoleContents :
        /\ c.class = S_Leader
        /\ c.title = S_DSNC \/ (c.status = S_FullReviewDue04 /\ c.span = <<D03, <<>>>>)}

\* of these, the rows of a role that has not ended
OpenContents == {c \in FewContents : c.span[2] = <<>>}

Cell(text, children) == [text |-> text, children |-> children]

\* the seven data cells of a Roles row; the title cell holds an element
DataCells(c) ==
    << Cell(c.title, <<"label">>), Cell(c.class, <<>>), Cell(<<>>, <<"a">>),
       Cell(c.span[1], <<>>), Cell(c.span[2], <<>>), Cell(c.status, <<>>),
       Cell(<<>>, <<"input">>) >>

\* with a selection column, the first row has the tickbox and the others an
\* empty cell; data-pk is the key of the row
RoleRow(k, c, selectable) ==
    [ data_pk |-> k,
      cells |-> (IF ~selectable THEN <<>>
                 ELSE IF k = 1 THEN <<Cell(<<>>, <<"input">>)>>
                 ELSE <<Cell(<<>>, <<>>)>>) \o DataCells(c) ]

\* the Roles pages of member cn with n rows drawn from contents
RolesPagesOf(cn, contents, sels, n) ==
    { [cn |-> cn, action |-> ProfileFormAction, rows |-> [k \in 1..n |-> RoleRow(k, f[k], sel)],
        permits |-> <<>>, plps |-> <<>>, ogl |-> <<>>, troles |-> <<>>] :
          sel \in sels, f \in [1..n -> contents] }

\* the page the portal answers without access: no table of the tab is in it
DeniedPage(cn) ==
    [cn |-> cn, action |-> AccessDeniedCN, rows |-> <<>>,
     permits |-> <<>>, plps |-> <<>>, ogl |-> <<>>, troles |-> <<>>]

StatusFilters == {<<>>, Some({S_Full}), Some({S_Cancelled})}

\* the role popup (AssignNewRole.aspx): its form action and the data-dob of
\* the member name input
Popups ==
    { [action |-> PopupFormAction, dob |-> D01, line_manager |-> <<>>, levels |-> <<>>],
      [action |-> AccessDeniedPopup, dob |-> <<>>, line_manager |-> <<>>, levels |-> <<>>] }

NoCall ==
    [ parser |-> "none", membership_num |-> 0, keep |-> FALSE, statuses |-> <<>>,
      ongoing_only |-> FALSE, today |-> 0, debug |-> FALSE,
      kind |-> "none", names |-> <<>>, roles |-> <<>>, membership_duration |-> <<>>,
      birth_date |-> <<>>, handed |-> <<>>, steps |-> <<>>,
      permits |-> <<>>, plps |-> <<>>, training_roles |-> <<>>, mandatory |-> <<>>,
      parsed_rows |-> <<>>, line_manager_number |-> <<>>, line_manager |-> <<>>,
      hierarchy |-> {} ]

\* "helper" in role_class.lower() or {role_title.lower()} <= NON_VOLUNTEER_TITLES
IsNonVolunteer(role_class, role_title) ==
    Contains(Lower(role_class), S_helper) \/ {Lower(role_title)} \subseteq NON_VOLUNTEER_TITLES

\* cells.pop(0) when the first cell holds an input or no element at all
PopTickbox(cells) ==
    IF (\E k \in 1..Len(cells[1].children) : cells[1].children[k] = "input")
         \/ cells[1].children = <<>>
      THEN Tail(cells) ELSE cells

\* role_end or datetime.date.today()
EndOrToday(role_end, td) == IF role_end # <<>> THEN role_end[1] ELSE td

\* a role added to roles_dates whatever its status
IsDatedAnyStatus(non_volunteer, role_status) == ~non_volunteer

\* the elif of the non-volunteer test: a full volunteer role that is not cancelled
IsDated(non_volunteer, role_status) == ~non_volunteer /\ role_status # S_Cancelled

\* roles_data of an earlier call kept in the next one
CarriedRolesData == call.roles

\* roles_data = {}
InitialRolesData == <<>>

\* the status filter placed ahead of the date list: a row it removes adds no
\* date pair
StatusFilteredUndated(acc, roles_dates) == acc

\* the continue of the status filter: it comes after roles_dates.append, so
\* the row is left out of roles_data alone
StatusFiltered(acc, roles_dates) == [acc EXCEPT !.roles_dates = roles_dates]

\* the body of the loop over the rows of the Roles table
RoleStep(acc, row, membership_num, keep, statuses, td) ==
    LET cells == PopTickbox(row.cells)
        ext == ExtractReviewDate(Strip(cells[6].text))
        role_status == ext[1]
        role_details ==
            [ role_number |-> row.data_pk,
              membership_number |-> membership_num,
              role_title |-> Strip(cells[1].text),
              role_class |-> Strip(cells[2].text),
              location_name |-> Strip(cells[3].text),
              role_start |-> parse(Strip(cells[4].text)),
              role_end |-> parse(Strip(cells[5].text)),
              role_status |-> role_status,
              review_date |-> ext[2] ]
        non_volunteer == IsNonVolunteer(role_details.role_class, role_details.role_title)
        roles_dates ==
            IF IsDated(non_volunteer, role_status)
              THEN Append(acc.roles_dates,
                          <<role_details.role_start[1], EndOrToday(role_details.role_end, td)>>)
              ELSE acc.roles_dates
    IN  IF acc.error \/ ParseFails(Strip(cells[4].text)) \/ ParseFails(Strip(cells[5].text))
             \/ ReviewDateFails(Strip(cells[6].text))
          THEN [acc EXCEPT !.error = TRUE]
        ELSE IF non_volunteer /\ keep = FALSE
          THEN acc
        ELSE IF statuses # <<>> /\ role_status \notin statuses[1]
          THEN StatusFiltered(acc, roles_dates)
        ELSE [acc EXCEPT !.roles_dates = roles_dates,
                         !.roles_data = (row.data_pk :> role_details) @@ acc.roles_data]

RECURSIVE RolesLoop(_, _, _, _, _, _, _)
RolesLoop(rows, k, acc, membership_num, keep, statuses, td) ==
    IF k > Len(rows) THEN acc
    ELSE RolesLoop(rows, k + 1, RoleStep(acc, rows[k], membership_num, keep, statuses, td),
                   membership_num, keep, statuses, td)

\* get_roles_tab after the loop over the rows, which left acc
RolesTabOutcome(base, pg, membership_num, acc) ==
    IF pg.action = AccessDeniedCN
      THEN [base EXCEPT !.kind = "PermissionError", !.names = Some(membership_num),
                        !.steps = <<"request", "form_action">>]
    ELSE IF acc.error
      THEN [base EXCEPT !.kind = "ParseError",
                        !.steps = <<"request", "form_action", "extract">>]
    ELSE IF acc.roles_dates = <<>>
      THEN [base EXCEPT !.kind = "IndexError", !.handed = Some(acc.roles_dates),
                        !.steps = <<"request", "form_action", "extract", "duration">>]
    ELSE [base EXCEPT !.kind = "MemberRolesCollection",
                      !.roles = acc.roles_data,
                      !.handed = Some(acc.roles_dates),
                      !.membership_duration =
                          Some(YearsOfDays(SumDays(ReduceDateList(acc.roles_dates)))),
                      !.steps = <<"request", "form_action", "extract", "duration", "construct">>]

\* get_roles_tab: the outcome of one call on page pg
RolesTabCall(pg, membership_num, keep, statuses, td) ==
    RolesTabOutcome([NoCall EXCEPT !.parser = "get_roles_tab", !.membership_num = membership_num,
                                   !.keep = keep, !.statuses = statuses, !.today = td],
                    pg, membership_num,
                    RolesLoop(pg.rows, 1,
                              [roles_dates |-> <<>>, roles_data |-> InitialRolesData, error |-> FALSE],
                              membership_num, keep, statuses, td))

\* the Permits page: the rows of the permits table
S_Revoked == <<"R", "e", "v", "o", "k", "e", "d">>

S_revoked == <<"r", "e", "v", "o", "k", "e", "d">>

\* how many rows the permits table has
MaxPermits == 2

PermitRowClass == "msTR msTRPERM"

\* what a row of the permits table can hold: its class, the permit type and
\* the text of the expiry cell
PermitContents ==
    [class : {PermitRowClass, "msTR"}, permit_type : {"Hill Walking", "Water Activities"},
     expires : {S_Revoked, S_revoked, <<>>, D03, S_abc}]

\* the Permits pages of member cn with n rows
PermitsPagesOf(cn, n) ==
    { [cn |-> cn, action |-> ProfileFormAction, rows |-> <<>>, permits |-> f,
       plps |-> <<>>, ogl |-> <<>>, troles |-> <<>>] : f \in [1..n -> PermitContents] }

\* //table[@id="tbl_p4_permits"]//tr[@class="msTR msTRPERM"]
PermitSelected(row) == row.class = PermitRowClass

\* the text is not "revoked", in any case
ExpiresParsedAnyCase(expires) == Lower(expires) # S_revoked

\* expires != "Revoked"
ExpiresParsed(expires) == expires # S_Revoked

\* parse(expires) if expires != "Revoked" else None
PermitExpires(expires) == IF ExpiresParsed(expires) THEN parse(expires) ELSE <<>>

\* the loop of get_permits_tab over the rows
RECURSIVE PermitsLoop(_, _, _, _)
PermitsLoop(rows, k, acc, membership_num) ==
    IF k > Len(rows) \/ acc.kind # "ok" THEN acc
    ELSE PermitsLoop(rows, k + 1,
             IF ~PermitSelected(rows[k]) THEN acc
             ELSE IF ExpiresParsed(rows[k].expires) /\ ParseFails(rows[k].expires)
               THEN [acc EXCEPT !.kind = "ParseError"]
             ELSE [acc EXCEPT !.permits =
                      Append(@, [membership_number |-> membership_num,
                                 permit_type |-> rows[k].permit_type,
                                 expires |-> PermitExpires(rows[k].expires)])],
             membership_num)

\* the Training page: the module rows of the personal learning plans
S_gdpr == <<"g", "d", "p", "r">>

S_GDPR == <<"G", "D", "P", "R">>

S_SpaceDashSpace == <<" ", "-", " ">>

T_GDPR == <<"G", "D", "P", "R", " ", "-", " ", "D", "a", "t", "a">>

T_GDPR2 == <<"G", "D", "P", "R", "2", " ", "-", " ", "D", "a", "t", "a">>

T_SFTY == <<"S", "F", "T", "Y", " ", "-", " ", "S", "a", "f", "e", "t", "y">>

T_NoCode == <<"S", "a", "f", "e", "t", "y">>

S_RoleReviewDue01 ==
    <<"F", "u", "l", "l", " ", "(", "R", "e", "v", "i", "e", "w", " ", "D", "u", "e", ":", " ",
      "0", "1", " ", "J", "a", "n", " ", "2", "0", "0", "0", ")">>

\* how many module rows a Training page has, over its learning plans
MaxModules == 2

ModuleRowClass == "msTR trMTMN"

\* what a row of a learning plan can hold: its class, its title cell, the
\* learning date cell and the validated date cell
ModuleContents ==
    { [class |-> ModuleRowClass, title |-> T_GDPR, learning |-> <<>>, validated |-> D01],
      [class |-> ModuleRowClass, title |-> T_GDPR, learning |-> D01, validated |-> D03],
      [class |-> ModuleRowClass, title |-> T_GDPR, learning |-> <<>>, validated |-> <<>>],
      [class |-> ModuleRowClass, title |-> T_GDPR, learning |-> <<>>, validated |-> S_abc],
      [class |-> ModuleRowClass, title |-> T_SFTY, learning |-> D01, validated |-> D03],
      [class |-> ModuleRowClass, title |-> T_SFTY, learning |-> S_abc, validated |-> <<>>],
      [class |-> ModuleRowClass, title |-> T_GDPR2, learning |-> <<>>, validated |-> D03],
      [class |-> ModuleRowClass, title |-> T_NoCode, learning |-> <<>>, validated |-> <<>>],
      [class |-> "msTR", title |-> T_GDPR, learning |-> <<>>, validated |-> D03] }

\* the rows with data-ng_code and their tdLastComplete and tdRenewal cells
OglRow(code, last, renewal) == [code |-> code, last |-> last, renewal |-> renewal]

\* the rest of a Training page: its ongoing learning rows and its role rows
TrainingExtras ==
    { [ogl |-> <<>>, troles |-> <<>>],
      [ogl |-> <<OglRow("SA", D01, D03)>>, troles |-> <<>>],
      [ogl |-> <<OglRow("SA", D01, D03), OglRow("SG", <<>>, <<>>), OglRow("FA", D03, <<>>)>>,
       troles |-> <<[role_number |-> 7, status |-> S_RoleReviewDue01]>>],
      [ogl |-> <<OglRow("FA", S_abc, <<>>)>>, troles |-> <<>>] }

\* the module rows from..to of the page as the rows of one plan; data-pk of
\* a row is its place on the page
PlpRowsOf(mods, from, to) ==
    [k \in 1..(to - from + 1) |->
        [pk |-> from + k - 1, class |-> mods[from + k - 1].class, title |-> mods[from + k - 1].title,
         learning |-> mods[from + k - 1].learning, validated |-> mods[from + k - 1].validated]]

\* the Training pages of member cn with n module rows: the first s rows are
\* in the first learning plan and the others in the second
TrainingPagesOf(cn, n) ==
    { [cn |-> cn, action |-> ProfileFormAction, rows |-> <<>>, permits |-> <<>>,
       plps |-> << [pk |-> 1, rows |-> PlpRowsOf(mods, 1, s)],
                   [pk |-> 2, rows |-> PlpRowsOf(mods, s + 1, n)] >>,
       ogl |-> x.ogl, troles |-> x.troles] :
          mods \in [1..n -> ModuleContents], s \in 0..n, x \in TrainingExtras }

CodeChars == DOMAIN UpperToLower \cup DOMAIN Digits

\* re.match(r"^([A-Z0-9]+) - (.+)$", text): <<code, name>>, or <<>> when the
\* text does not match
ModuleTitleMatch(text) ==
    LET RECURSIVE Run(_)
        Run(k) == IF k <= Len(text) /\ text[k] \in CodeChars THEN Run(k + 1) ELSE k - 1
        n == Run(1)
    IN  IF n >= 1 /\ Len(text) >= n + 4 /\ SubSeq(text, n + 1, n + 3) = S_SpaceDashSpace
          THEN <<SubSeq(text, 1, n), SubSeq(text, n + 4, Len(text))>>
          ELSE <<>>

\* no module is passed over
ModuleSkippedNever(ongoing_only, code) == FALSE

\* ongoing_only and "gdpr" not in code.lower()
ModuleSkipped(ongoing_only, code) == ongoing_only /\ ~Contains(Lower(code), S_gdpr)

\* one module row in _process_personal_learning_plan
ModuleStep(acc, row, ongoing_only) ==
    IF acc.kind # "ok" \/ row.class # ModuleRowClass THEN acc
    ELSE LET matches == ModuleTitleMatch(row.title)
         IN  IF matches = <<>> THEN [acc EXCEPT !.kind = "AttributeError"]
             ELSE IF ModuleSkipped(ongoing_only, matches[1]) THEN acc
             ELSE IF ParseFails(row.learning) \/ ParseFails(row.validated)
               THEN [acc EXCEPT !.kind = "ParseError", !.parsed = Append(@, row.pk)]
             ELSE [acc EXCEPT
                     !.parsed = Append(@, row.pk),
                     !.data = Append(@, [pk |-> row.pk, code |-> matches[1], name |-> matches[2],
                                         learning_completed |-> parse(row.learning),
                                         learning_date |-> parse(row.learning),
                                         validated_date |-> parse(row.validated)])]

\* _process_personal_learning_plan: the module records of one plan, and the
\* rows whose date cells were parsed
RECURSIVE ProcessPersonalLearningPlan(_, _, _, _)
ProcessPersonalLearningPlan(rows, k, acc, ongoing_only) ==
    IF k > Len(rows) THEN acc
    ELSE ProcessPersonalLearningPlan(rows, k + 1, ModuleStep(acc, rows[k], ongoing_only), ongoing_only)

\* the loop of get_training_tab over the learning plans of the page
RECURSIVE TrainingPlps(_, _, _, _)
TrainingPlps(plps, p, acc, ongoing_only) ==
    IF p > Len(plps) \/ acc.kind # "ok" THEN acc
    ELSE LET one == ProcessPersonalLearningPlan(plps[p].rows, 1,
                        [kind |-> "ok", data |-> <<>>, parsed |-> acc.parsed], ongoing_only)
         IN  TrainingPlps(plps, p + 1,
                 [kind |-> one.kind, parsed |-> one.parsed,
                  training_plps |-> IF one.kind = "ok"
                                      THEN (plps[p].pk :> one.data) @@ acc.training_plps
                                      ELSE acc.training_plps],
                 ongoing_only)

\* the loop of get_training_tab over the role rows of the page
RECURSIVE TrainingRoles(_, _, _)
TrainingRoles(troles, k, acc) ==
    IF k > Len(troles) \/ acc.kind # "ok" THEN acc
    ELSE LET st == RoleDataStatusCall(troles[k].status)
         IN  TrainingRoles(troles, k + 1,
                 IF st.kind # "returned" THEN [acc EXCEPT !.kind = st.kind]
                 ELSE [acc EXCEPT !.training_roles =
                          (troles[k].role_number :>
                              [role_number |-> troles[k].role_number,
                               role_status |-> st.status, review_date |-> st.date]) @@ @])

mogl_map == "SA" :> "safety" @@ "SG" :> "safeguarding" @@ "FA" :> "first_aid"

mogl_types == {"gdpr"} \cup {mogl_map[c] : c \in DOMAIN mogl_map}

\* the validated dates of the modules of code GDPR, all plans together
GdprDates(training_plps) ==
    UNION { { training_plps[p][k].validated_date[1] :
                k \in { j \in 1..Len(training_plps[p]) :
                           /\ training_plps[p][j].code = S_GDPR
                           /\ training_plps[p][j].validated_date # <<>> } } :
            p \in DOMAIN training_plps }

\* the first of the sorted dates
EarliestDate(dates) ==
    IF dates = {} THEN <<>> ELSE Some(CHOOSE d \in dates : \A x \in dates : d <= x)

\* next(reversed(sorted(dates)), None)
LatestDate(dates) ==
    IF dates = {} THEN <<>> ELSE Some(CHOOSE d \in dates : \A x \in dates : x <= d)

\* a dict of sub-fields is a set of <<key, value>>; dict() is {}
OglFields(row) == { <<"completed_date", parse(row.last)>>, <<"renewal_date", parse(row.renewal)>> }

\* the loop of _compile_ongoing_learning over the rows with data-ng_code
RECURSIVE OglLoop(_, _, _)
OglLoop(ogl, k, acc) ==
    IF k > Len(ogl) \/ acc.kind # "ok" THEN acc
    ELSE OglLoop(ogl, k + 1,
             IF ParseFails(ogl[k].last) \/ ParseFails(ogl[k].renewal)
               THEN [acc EXCEPT !.kind = "ParseError"]
               ELSE [acc EXCEPT !.training_ogl = (mogl_map[ogl[k].code] :> OglFields(ogl[k])) @@ @])

\* the types found on the page and no other
FoundLearningOnly(training_ogl) == training_ogl

\* {mogl_type: training_ogl.get(mogl_type, dict()) for mogl_type in mogl_types}
AllLearningTypes(training_ogl) ==
    [t \in mogl_types |-> IF t \in DOMAIN training_ogl THEN training_ogl[t] ELSE {}]

\* _compile_ongoing_learning
CompileOngoingLearning(training_plps, ogl) ==
    LET gdpr == "gdpr" :> { <<"completed_date", LatestDate(GdprDates(training_plps))>> }
        done == OglLoop(ogl, 1, [kind |-> "ok", training_ogl |-> gdpr])
    IN  [kind |-> done.kind, mandatory |-> AllLearningTypes(done.training_ogl)]

\* a tab parser that tests the form action, then extracts and builds
CheckedTabCall(parser, kind, pg, membership_num) ==
    LET base == [NoCall EXCEPT !.parser = parser, !.membership_num = membership_num]
    IN  IF pg.action = AccessDeniedCN
          THEN [base EXCEPT !.kind = "PermissionError", !.names = Some(membership_num),
                            !.steps = <<"request", "form_action">>]
          ELSE [base EXCEPT !.kind = kind,
                            !.steps = <<"request", "form_action", "extract", "construct">>]

PersonalTabCall(pg, membership_num) ==
    CheckedTabCall("get_personal_tab", "MemberDetails", pg, membership_num)

\* get_permits_tab: the form action is never read
PermitsTabCall(pg, membership_num) ==
    LET base == [NoCall EXCEPT !.parser = "get_permits_tab", !.membership_num = membership_num]
        done == PermitsLoop(pg.permits, 1, [kind |-> "ok", permits |-> <<>>], membership_num)
    IN  IF done.kind # "ok"
          THEN [base EXCEPT !.kind = done.kind, !.steps = <<"request", "extract">>]
          ELSE [base EXCEPT !.kind = "list[MemberPermit]", !.permits = done.permits,
                            !.steps = <<"request", "extract", "construct">>]

\* get_training_tab: the form action is never read; plps and parsed_rows are
\* training_plps and the rows whose date cells were parsed, whatever is returned
TrainingTabCall(pg, membership_num, ongoing_only) ==
    LET base == [NoCall EXCEPT !.parser = "get_training_tab", !.membership_num = membership_num,
                               !.ongoing_only = ongoing_only]
        plps == TrainingPlps(pg.plps, 1,
                             [kind |-> "ok", parsed |-> <<>>, training_plps |-> <<>>], ongoing_only)
        roles == TrainingRoles(pg.troles, 1, [kind |-> "ok", training_roles |-> <<>>])
        ogl == CompileOngoingLearning(plps.training_plps, pg.ogl)
        failed == [base EXCEPT !.parsed_rows = plps.parsed, !.steps = <<"request", "extract">>]
    IN  IF plps.kind # "ok" THEN [failed EXCEPT !.kind = plps.kind]
        ELSE IF roles.kind # "ok" THEN [failed EXCEPT !.kind = roles.kind]
        ELSE IF ogl.kind # "ok" THEN [failed EXCEPT !.kind = ogl.kind]
        ELSE [base EXCEPT
                !.kind = IF ongoing_only THEN "MemberMandatoryTraining" ELSE "MemberTrainingTab",
                !.plps = plps.training_plps,
                !.training_roles = roles.training_roles,
                !.mandatory = ogl.mandatory,
                !.parsed_rows = plps.parsed,
                !.steps = <<"request", "extract", "construct">>]

AwardsTabCall(pg, membership_num) ==
    CheckedTabCall("get_awards_tab", "list[MemberAward]", pg, membership_num)

DisclosuresTabCall(pg, membership_num) ==
    CheckedTabCall("get_disclosures_tab", "list[MemberDisclosure]", pg, membership_num)

\* the role popup: the options of its selects
S_NotSelected == <<"-", "-", "-", " ", "N", "o", "t", " ", "S", "e", "l", "e", "c", "t", "e", "d", " ", "-", "-", "-">>

S_NoItems == <<"-", "-", "-", " ", "N", "o", " ", "I", "t", "e", "m", "s", " ", "A", "v", "a", "i", "l", "a", "b", "l", "e", " ", "-", "-", "-">>

S_NoLineManager == <<"-", "-", "-", " ", "N", "o", " ", "L", "i", "n", "e", " ", "M", "a", "n", "a", "g", "e", "r", " ", "-", "-", "-">>

L_CountyLong == <<"C", "o", "u", "n", "t", "y", " ", "/", " ", "A", "r", "e", "a", " ", "/", " ", "S", "c", "o", "t", "t", "i", "s", "h", " ", "R", "e", "g", "i", "o", "n", " ", "/", " ", "O", "v", "e", "r", "s", "e", "a", "s", " ", "B", "r", "a", "n", "c", "h">>

L_County == <<"C", "o", "u", "n", "t", "y">>

L_District == <<"D", "i", "s", "t", "r", "i", "c", "t">>

S_Anyshire == <<"A", "n", "y", "s", "h", "i", "r", "e">>

S_AnnLee == <<" ", "A", "n", "n", " ", "L", "e", "e", " ">>

S_123 == <<"1", "2", "3">>

unset_vals == {S_NotSelected, S_NoItems, S_NoLineManager}

renamed_levels == L_CountyLong :> L_County

\* the selected option of cbo_p2_linemaneger, if one is selected: its value
\* attribute and its text
LineManagerOptions ==
    { <<>>,
      Some([value |-> S_123, text |-> S_AnnLee]),
      Some([value |-> <<>>, text |-> S_NoLineManager]),
      Some([value |-> S_NoLineManager, text |-> S_NoLineManager]),
      Some([value |-> <<>>, text |-> S_NotSelected]) }

\* the first option of a cbo_p1_location select, if it has one
LevelOptions == {<<>>, Some(S_Anyshire), Some(S_NotSelected), Some(S_NoItems), Some(S_NoLineManager)}

\* the popups with the selects of two levels of the hierarchy
DetailPopups ==
    { [action |-> PopupFormAction, dob |-> D01, line_manager |-> lm,
       levels |-> << [title |-> L_CountyLong, option |-> a], [title |-> L_District, option |-> b] >>] :
          lm \in LineManagerOptions, a \in LevelOptions, b \in LevelOptions }

\* maybe_int (compass.core.utility): the integer a text of digits names, else
\* None
MaybeInt(text) ==
    LET RECURSIVE Val(_)
        Val(k) == IF k = 0 THEN 0 ELSE 10 * Val(k - 1) + Digits[text[k]]
    IN  IF text # <<>> /\ \A k \in 1..Len(text) : text[k] \in DOMAIN Digits
          THEN Some(Val(Len(text))) ELSE <<>>

\* line_manager_number in unset_vals: the number is an int or None, and
\* unset_vals holds strings
NumberUnset(line_manager_number) == FALSE

\* line_manager_el.text.strip()
LineManagerText(el) == Some(Strip(el.text))

\* value not in unset_vals
LevelKept(value) == value = <<>> \/ value[1] \notin unset_vals

\* clipped_locations, a dict as the set of its <<key, value>>
ClippedLocations(levels) ==
    { << Lower(IF levels[k].title \in DOMAIN renamed_levels
                 THEN renamed_levels[levels[k].title] ELSE levels[k].title),
         levels[k].option >> :
        k \in { j \in 1..Len(levels) : LevelKept(levels[j].option) } }

\* get_roles_detail, as far as the form action, birth_date, the line manager
\* and the hierarchy go: every other field is read from the document alone
RolesDetailCall(pop, role_number, dbg) ==
    LET base == [NoCall EXCEPT !.parser = "get_roles_detail", !.membership_num = role_number,
                               !.debug = dbg]
    IN  IF pop.action = AccessDeniedPopup
          THEN [base EXCEPT !.kind = "PermissionError", !.names = Some(role_number),
                            !.steps = <<"request", "form_action">>]
        ELSE IF dbg /\ ParseFails(pop.dob)
          THEN [base EXCEPT !.kind = "ParseError",
                            !.steps = <<"request", "form_action", "extract">>]
        ELSE [base EXCEPT !.kind = "MemberRolePopup",
                          !.birth_date = IF dbg THEN parse(pop.dob) ELSE <<>>,
                          !.line_manager_number =
                              IF pop.line_manager = <<>> THEN <<>>
                              ELSE IF NumberUnset(MaybeInt(pop.line_manager[1].value)) THEN <<>>
                              ELSE MaybeInt(pop.line_manager[1].value),
                          !.line_manager =
                              IF pop.line_manager = <<>> THEN <<>>
                              ELSE LineManagerText(pop.line_manager[1]),
                          !.hierarchy = ClippedLocations(pop.levels),
                          !.steps = <<"request", "form_action", "extract", "construct">>]

-----------------------------------------------------------------------------
(* The parsers as actions: the portal answers a request for member page.cn  *)
(* with page, and a request for the role popup with popup.                  *)

ReducerIdle ==
    /\ dl = <<>>
    /\ pending = <<>>
    /\ emitted = <<>>
    /\ rpc = "idle"
    /\ duration = None

GetPersonalTab ==
    /\ call' = PersonalTabCall(page, page.cn)
    /\ UNCHANGED <<dl, pending, emitted, rpc, duration, page, popup, today, debug, prev, addr_in, addr_out, given, ret, logon, report>>

GetRolesTab ==
    /\ \E keep \in BOOLEAN, statuses \in StatusFilters :
          call' = RolesTabCall(page, page.cn, keep, statuses, today)
    /\ UNCHANGED <<dl, pending, emitted, rpc, duration, page, popup, today, debug, prev, addr_in, addr_out, given, ret, logon, report>>

GetPermitsTab ==
    /\ call' = PermitsTabCall(page, page.cn)
    /\ UNCHANGED <<dl, pending, emitted, rpc, duration, page, popup, today, debug, prev, addr_in, addr_out, given, ret, logon, report>>

GetTrainingTab ==
    /\ \E ongoing_only \in BOOLEAN : call' = TrainingTabCall(page, page.cn, ongoing_only)
    /\ UNCHANGED <<dl, pending, emitted, rpc, duration, page, popup, today, debug, prev, addr_in, addr_out, given, ret, logon, report>>

GetAwardsTab ==
    /\ call' = AwardsTabCall(page, page.cn)
    /\ UNCHANGED <<dl, pending, emitted, rpc, duration, page, popup, today, debug, prev, addr_in, addr_out, given, ret, logon, report>>

GetDisclosuresTab ==
    /\ call' = DisclosuresTabCall(page, page.cn)
    /\ UNCHANGED <<dl, pending, emitted, rpc, duration, page, popup, today, debug, prev, addr_in, addr_out, given, ret, logon, report>>

GetRolesDetail ==
    /\ call' = RolesDetailCall(popup, 1, debug)
    /\ UNCHANGED <<dl, pending, emitted, rpc, duration, page, popup, today, debug, prev, addr_in, addr_out, given, ret, logon, report>>

\* midnight passes
AdvanceDay ==
    /\ today + 1 \in Todays
    /\ today' = today + 1
    /\ UNCHANGED <<dl, pending, emitted, rpc, duration, page, popup, debug, call, prev, addr_in, addr_out, given, ret, logon, report>>

\* Settings.debug is a class attribute any caller may set
SetDebug ==
    /\ debug' = ~debug
    /\ UNCHANGED <<dl, pending, emitted, rpc, duration, page, popup, today, call, prev, addr_in, addr_out, given, ret, logon, report>>

\* the caller puts the record it was given aside, to compare it with the
\* record of a later call
Remember ==
    /\ call.parser # "none"
    /\ prev.parser = "none"
    /\ prev' = call
    /\ call' = NoCall
    /\ UNCHANGED <<dl, pending, emitted, rpc, duration, page, popup, today, debug, addr_in, addr_out, given, ret, logon, report>>

NoPopup == [action |-> PopupFormAction, dob |-> <<>>, line_manager |-> <<>>, levels |-> <<>>]

\* Roles pages of every shape, parsed by get_roles_tab
InitRoles ==
    /\ ReducerIdle
    /\ page \in {DeniedPage(101)} \cup UNION {RolesPagesOf(101, RoleContents, BOOLEAN, n) : n \in 0..MaxRows}
    /\ popup = NoPopup
    /\ today \in Todays
    /\ debug = FALSE
    /\ call = NoCall
    /\ prev = NoCall
    /\ addr_in = <<>>
    /\ addr_out = <<>>
    /\ given = <<>>
    /\ ret = <<>>
    /\ logon = <<>>
    /\ report = <<>>

NextRoles == GetRolesTab

SpecRoles == InitRoles /\ [][NextRoles]_vars

\* every tab parser on the page of a member, with and without access
InitTabs ==
    /\ ReducerIdle
    /\ page \in UNION { {DeniedPage(cn)} \cup UNION {RolesPagesOf(cn, FewContents, BOOLEAN, n) : n \in 0..MaxRows} :
                        cn \in MemberNums }
    /\ popup = NoPopup
    /\ today \in Todays
    /\ debug = FALSE
    /\ call = NoCall
    /\ prev = NoCall
    /\ addr_in = <<>>
    /\ addr_out = <<>>
    /\ given = <<>>
    /\ ret = <<>>
    /\ logon = <<>>
    /\ report = <<>>

NextTabs ==
    \/ GetPersonalTab
    \/ GetRolesTab
    \/ GetPermitsTab
    \/ GetTrainingTab
    \/ GetAwardsTab
    \/ GetDisclosuresTab

SpecTabs == InitTabs /\ [][NextTabs]_vars

\* one document parsed again and again while the date and the settings change
InitAgain ==
    /\ ReducerIdle
    /\ page \in {DeniedPage(101)} \cup UNION {RolesPagesOf(101, OpenContents, {FALSE}, n) : n \in 0..MaxRows}
    /\ popup \in Popups
    /\ today = 3
    /\ debug = FALSE
    /\ call = NoCall
    /\ prev = NoCall
    /\ addr_in = <<>>
    /\ addr_out = <<>>
    /\ given = <<>>
    /\ ret = <<>>
    /\ logon = <<>>
    /\ report = <<>>

NextAgain ==
    \/ GetPersonalTab
    \/ GetRolesTab
    \/ GetPermitsTab
    \/ GetTrainingTab
    \/ GetAwardsTab
    \/ GetDisclosuresTab
    \/ GetRolesDetail
    \/ AdvanceDay
    \/ SetDebug
    \/ Remember

SpecAgain == InitAgain /\ [][NextAgain]_vars

-----------------------------------------------------------------------------
(* _process_address *)

S_DotSpace == <<".", " ">>

S_Space == <<" ">>

S_CommaSpace == <<",", " ">>

AddrWithCounty == <<"1", "2", " ", "H", "i", "g", "h", " ", "S", "t", ",", " ", "A", "n", "y", "t", "o", "w", "n", ",", " ", "A", "n", "y", "s", "h", "i", "r", "e", ".", " ", "A", "B", "1", " ", "2", "C", "D", " ", "U", "K">>

AddrNoCounty == <<"1", "2", " ", "H", "i", "g", "h", " ", "S", "t", ",", " ", "A", "n", "y", "t", "o", "w", "n", ".", " ", "A", "B", "1", " ", "2", "C", "D", " ", "U", "K">>

AddrFlat == <<"F", "l", "a", "t", " ", "1", ",", " ", "1", "2", " ", "H", "i", "g", "h", " ", "S", "t", ",", " ", "A", "n", "y", "t", "o", "w", "n", ",", " ", "A", "n", "y", "s", "h", "i", "r", "e", ".", " ", "A", "B", "1", " ", "2", "C", "D", " ", "U", "K">>

MaxAddrLen == 7

AddrChars == {"a", ",", ".", " "}

\* every short text over the characters the splits look for, the two
\* addresses of the documentation and one with a comma in the street
AddrInputs ==
    UNION {[1..n -> AddrChars] : n \in 0..MaxAddrLen} \cup {AddrWithCounty, AddrNoCounty, AddrFlat}

\* str.rfind(sep) + 1: the start of the last occurrence of sep in s, or 0
RFind(s, sep) ==
    LET at == {k \in 1..(Len(s) - Len(sep) + 1) : SubSeq(s, k, k + Len(sep) - 1) = sep}
    IN  IF at = {} THEN 0 ELSE CHOOSE k \in at : \A j \in at : j <= k

\* the first occurrence instead of the last
LFind(s, sep) ==
    LET at == {k \in 1..(Len(s) - Len(sep) + 1) : SubSeq(s, k, k + Len(sep) - 1) = sep}
    IN  IF at = {} THEN 0 ELSE CHOOSE k \in at : \A j \in at : k <= j

\* str.split(sep, maxsplit): the cuts taken from the left
RECURSIVE LSplit(_, _, _)
LSplit(s, sep, maxsplit) ==
    LET k == LFind(s, sep)
    IN  IF maxsplit = 0 \/ k = 0 THEN <<s>>
        ELSE <<SubSeq(s, 1, k - 1)>> \o LSplit(SubSeq(s, k + Len(sep), Len(s)), sep, maxsplit - 1)

\* str.rsplit(sep, maxsplit)
RECURSIVE RSplit(_, _, _)
RSplit(s, sep, maxsplit) ==
    LET k == RFind(s, sep)
    IN  IF maxsplit = 0 \/ k = 0 THEN <<s>>
        ELSE RSplit(SubSeq(s, 1, k - 1), sep, maxsplit - 1) \o <<SubSeq(s, k + Len(sep), Len(s))>>

NullAddress ==
    [ unparsed_address |-> <<>>, country |-> <<>>, postcode |-> <<>>, county |-> <<>>,
      town |-> <<>>, street |-> <<>> ]

\* the record without the text it was parsed from
AddressDataNoUnparsed(address, country, postcode, county, town, street) ==
    [ unparsed_address |-> <<>>, country |-> Some(country), postcode |-> Some(postcode),
      county |-> county, town |-> Some(town), street |-> Some(street) ]

\* dict(unparsed_address=address, country=country, ...); county is optional
AddressData(address, country, postcode, county, town, street) ==
    [ unparsed_address |-> Some(address), country |-> Some(country), postcode |-> Some(postcode),
      county |-> county, town |-> Some(town), street |-> Some(street) ]

\* _process_address: the record it returns or the error it raises; caught
\* tells that the ValueError of the 3-way unpacking was handled
ProcessAddress(address) ==
    IF address = <<>>
      THEN [kind |-> "returned", rec |-> NullAddress, caught |-> FALSE]
    ELSE
      LET main_code == RSplit(address, S_DotSpace, 1)
      IN  IF Len(main_code) # 2
            THEN [kind |-> "ValueError", rec |-> NullAddress, caught |-> FALSE]
          ELSE
            LET addr_main == main_code[1]
                code == RSplit(main_code[2], S_Space, 1)
                three == RSplit(addr_main, S_CommaSpace, 2)
                two == RSplit(addr_main, S_CommaSpace, 1)
            IN  IF Len(code) # 2
                  THEN [kind |-> "ValueError", rec |-> NullAddress, caught |-> FALSE]
                ELSE IF Len(three) = 3
                  THEN [kind |-> "returned", caught |-> FALSE,
                        rec |-> AddressData(address, code[2], code[1], Some(three[3]), three[2], three[1])]
                ELSE IF Len(two) = 2
                  THEN [kind |-> "returned", caught |-> TRUE,
                        rec |-> AddressData(address, code[2], code[1], <<>>, two[2], two[1])]
                ELSE [kind |-> "ValueError", rec |-> NullAddress, caught |-> TRUE]

NoAddress == [kind |-> "none", rec |-> NullAddress, caught |-> FALSE]

InitAddress ==
    /\ ReducerIdle
    /\ page = <<>>
    /\ popup = <<>>
    /\ today = 0
    /\ debug = FALSE
    /\ call = <<>>
    /\ prev = <<>>
    /\ addr_in \in AddrInputs
    /\ addr_out = NoAddress
    /\ given = <<>>
    /\ ret = <<>>
    /\ logon = <<>>
    /\ report = <<>>

CallProcessAddress ==
    /\ addr_out.kind = "none"
    /\ addr_out' = ProcessAddress(addr_in)
    /\ UNCHANGED <<dl, pending, emitted, rpc, duration, page, popup, today, debug, call, prev, addr_in, given, ret, logon, report>>

NextAddress == CallProcessAddress

SpecAddress == InitAddress /\ [][NextAddress]_vars

-----------------------------------------------------------------------------
(* Claims about get_roles_tab and the tab parsers *)

\* the data cells of a row of the page: its last seven cells
RowData(row) == SubSeq(row.cells, Len(row.cells) - 6, Len(row.cells))

\* a role whose class holds "helper" in any case, or whose title in lower
\* case is one of the listed titles
RefNonVolunteer(class, title) ==
    \/ \E i \in 1..(Len(class) - 5) : Lower(SubSeq(class, i, i + 5)) = S_helper
    \/ Lower(title) \in NON_VOLUNTEER_TITLES

RowNonVolunteer(row) == RefNonVolunteer(RowData(row)[2].text, RowData(row)[1].text)

RowStatus(row) == ExtractReviewDate(RowData(row)[6].text)[1]

RolesParsed == call.parser = "get_roles_tab" /\ page.action # AccessDeniedCN

\* C3: get_roles_tab never hands an empty collection of date pairs to
\* _membership_duration, so the seed step sdl[0] never fails.
C3_NeverHandsEmpty ==
    call.parser = "get_roles_tab" =>
        /\ call.kind # "IndexError"
        /\ call.handed # <<>> => call.handed[1] # <<>>

\* C4: on a page whose form action is the access-denied sentinel every tab
\* parser raises PermissionError naming the requested membership number,
\* before any field is extracted and before anything is built or returned.
C4_DeniedRaisesFirst ==
    call.parser # "none" /\ page.action = AccessDeniedCN =>
        /\ call.kind = "PermissionError"
        /\ call.names = Some(call.membership_num)
        /\ \A k \in 1..Len(call.steps) : call.steps[k] \notin {"extract", "construct"}

\* C5: a role is non-volunteer iff its class contains "helper" in any case
\* or its lower-cased title is one of NON_VOLUNTEER_TITLES; without
\* keep_non_volunteer_roles no such role is in the returned mapping, with it
\* (and no status filter) every such role of the page is in the mapping
\* under its role_number.
C5_NonVolunteerFilter ==
    RolesParsed =>
        /\ ~call.keep =>
              \A k \in DOMAIN call.roles :
                  ~RefNonVolunteer(call.roles[k].role_class, call.roles[k].role_title)
        /\ call.keep /\ call.statuses = <<>> =>
              \A j \in 1..Len(page.rows) :
                  RowNonVolunteer(page.rows[j]) =>
                      /\ call.kind = "MemberRolesCollection"
                      /\ page.rows[j].data_pk \in DOMAIN call.roles
                      /\ call.roles[page.rows[j].data_pk].role_number = page.rows[j].data_pk
                      /\ call.roles[page.rows[j].data_pk].role_title = RowData(page.rows[j])[1].text

\* the pairs of the rows from the k-th on that are a volunteer's and not
\* cancelled, in page order, an open end replaced by the date td
RECURSIVE RefPairs(_, _, _)
RefPairs(rows, k, td) ==
    IF k > Len(rows) THEN <<>>
    ELSE LET d == RowData(rows[k])
             from == parse(d[4].text)
             to == parse(d[5].text)
         IN  (IF ~RowNonVolunteer(rows[k]) /\ RowStatus(rows[k]) # S_Cancelled
                THEN << <<from[1], IF to = <<>> THEN td ELSE to[1]>> >>
                ELSE <<>>) \o RefPairs(rows, k + 1, td)

\* C6: the pairs handed to the duration computation are one pair per row
\* that is a volunteer role and not cancelled: (role_start, role_end), or
\* (role_start, today) without a role_end; cancelled and non-volunteer roles
\* give no pair, whatever keep_non_volunteer_roles and statuses are.
C6_PairsOfVolunteerRoles ==
    RolesParsed /\ call.handed # <<>> => call.handed[1] = RefPairs(page.rows, 1, call.today)

\* a call that keeps a non-volunteer row and dates the open-ended volunteer
\* row after it to the day of the call
C6_Witness ==
    /\ RolesParsed
    /\ call.keep
    /\ call.kind = "MemberRolesCollection"
    /\ Len(page.rows) = 2
    /\ RowNonVolunteer(page.rows[1])
    /\ 1 \in DOMAIN call.roles
    /\ call.handed = Some(<< <<3, call.today>> >>)
    /\ call.today = 4

SameRequest(a, b) ==
    /\ a.parser = b.parser
    /\ a.membership_num = b.membership_num
    /\ a.keep = b.keep
    /\ a.statuses = b.statuses
    /\ a.ongoing_only = b.ongoing_only

SameRecord(a, b) ==
    /\ a.kind = b.kind
    /\ a.names = b.names
    /\ a.roles = b.roles
    /\ a.membership_duration = b.membership_duration
    /\ a.birth_date = b.birth_date

-----------------------------------------------------------------------------
(* Claims about _process_address *)

\* where sep occurs in s
Occurrences(s, sep) == {k \in 1..(Len(s) - Len(sep) + 1) : SubSeq(s, k, k + Len(sep) - 1) = sep}

Last(at) == CHOOSE k \in at : \A j \in at : j <= k

\* C8: _process_address raises for no input: the empty text gives the
\* all-null record and a malformed text a partial record.
C8_NeverRaises ==
    addr_out.kind # "none" =>
        /\ addr_out.kind = "returned"
        /\ addr_in = <<>> => addr_out.rec = NullAddress

\* C9: for "<body>. <postcode> <country>" the text is cut at the last ". ",
\* country is what follows the last space of the tail and postcode the rest;
\* with two or more ", " in the body the last segment is county, the one
\* before it town and all before that street; with exactly one ", " county
\* is None and street and town are the two segments.
C9_PositionalSplit ==
    LET dots == Occurrences(addr_in, S_DotSpace)
        body == SubSeq(addr_in, 1, Last(dots) - 1)
        tail == SubSeq(addr_in, Last(dots) + 2, Len(addr_in))
        spaces == Occurrences(tail, S_Space)
        commas == Occurrences(body, S_CommaSpace)
        c1 == Last(commas)
        c2 == Last(commas \ {c1})
        rec == addr_out.rec
    IN  addr_out.kind # "none" /\ dots # {} /\ spaces # {} /\ commas # {} =>
            /\ addr_out.kind = "returned"
            /\ rec.country = Some(SubSeq(tail, Last(spaces) + 1, Len(tail)))
            /\ rec.postcode = Some(SubSeq(tail, 1, Last(spaces) - 1))
            /\ Cardinality(commas) >= 2 =>
                  /\ rec.county = Some(SubSeq(body, c1 + 2, Len(body)))
                  /\ rec.town = Some(SubSeq(body, c2 + 2, c1 - 1))
                  /\ rec.street = Some(SubSeq(body, 1, c2 - 1))
            /\ Cardinality(commas) = 1 =>
                  /\ rec.county = <<>>
                  /\ rec.town = Some(SubSeq(body, c1 + 2, Len(body)))
                  /\ rec.street = Some(SubSeq(body, 1, c1 - 1))

\* an address whose street holds a comma of its own
C9_Witness ==
    /\ addr_in = AddrFlat
    /\ addr_out.kind = "returned"
    /\ Len(addr_out.rec.street[1]) = 18

\* C10: unparsed_address is None iff the input was empty, and then every
\* other field is None; for a non-empty input that returns it is the input.
C10_UnparsedVerbatim ==
    addr_out.kind = "returned" =>
        /\ addr_out.rec.unparsed_address = <<>> <=> addr_in = <<>>
        /\ addr_out.rec.unparsed_address = <<>> => addr_out.rec = NullAddress
        /\ addr_in # <<>> => addr_out.rec.unparsed_address = Some(addr_in)

\* a non-empty address without a county
C10_Witness ==
    /\ addr_out.kind = "returned"
    /\ addr_out.caught
    /\ addr_in = AddrNoCounty
    /\ addr_out.rec.unparsed_address = Some(AddrNoCounty)

-----------------------------------------------------------------------------
(* The status/date extractors called on their own                          *)

\* how many prefixes a status text is given
MaxPrefixes == 2

ExtractPrefixes ==
    {PrefixReviewDue, PrefixEnding, PrefixDisclosureIssued, PrefixRoleReviewDue, PrefixRoleEnding}

ExtractRemainders == {<<>>, D01, D03, D01 \o S_RParen, S_Pending, S_abc}

RECURSIVE Concat(_)
Concat(ss) == IF ss = <<>> THEN <<>> ELSE Head(ss) \o Concat(Tail(ss))

\* the status texts: some prefixes, then a date, a word or nothing
ExtractTexts ==
    { Concat(ps) \o r : ps \in UNION {[1..n -> ExtractPrefixes] : n \in 0..MaxPrefixes},
                        r \in ExtractRemainders }

InitExtract ==
    /\ ReducerIdle
    /\ page = <<>>
    /\ popup = <<>>
    /\ today = 0
    /\ debug = FALSE
    /\ call = <<>>
    /\ prev = <<>>
    /\ addr_in = <<>>
    /\ addr_out = <<>>
    /\ given \in ExtractTexts
    /\ ret = NoRet
    /\ logon = <<>>
    /\ report = <<>>

CallExtractReviewDate ==
    /\ ret.kind = "none"
    /\ ret' = ReviewDateCall(given)
    /\ UNCHANGED <<dl, pending, emitted, rpc, duration, page, popup, today, debug, call, prev, addr_in, addr_out, given, logon, report>>

CallExtractDisclosureDate ==
    /\ ret.kind = "none"
    /\ ret' = DisclosureDateCall(given)
    /\ UNCHANGED <<dl, pending, emitted, rpc, duration, page, popup, today, debug, call, prev, addr_in, addr_out, given, logon, report>>

CallProcessRoleData ==
    /\ ret.kind = "none"
    /\ ret' = RoleDataStatusCall(given)
    /\ UNCHANGED <<dl, pending, emitted, rpc, duration, page, popup, today, debug, call, prev, addr_in, addr_out, given, logon, report>>

NextExtract == CallExtractReviewDate \/ CallExtractDisclosureDate \/ CallProcessRoleData

SpecExtract == InitExtract /\ [][NextExtract]_vars

\* C11: _extract_review_date on a text starting with "Full Review Due " or
\* "Full Ending " gives status "Full" and parse of exactly what is left when
\* that one prefix is taken off; on any other text the status is the text,
\* review_date is None and parse is not called.
C11_OnePrefixRemoved ==
    ret.fn = "_extract_review_date" =>
        IF StartsWith(given, PrefixReviewDue) \/ StartsWith(given, PrefixEnding)
          THEN LET rest == IF StartsWith(given, PrefixReviewDue)
                             THEN SubSeq(given, Len(PrefixReviewDue) + 1, Len(given))
                             ELSE SubSeq(given, Len(PrefixEnding) + 1, Len(given))
               IN  /\ ret.parsed = Some(rest)
                   /\ ret.kind = "returned" => ret.status = Some(S_Full) /\ ret.date = parse(rest)
          ELSE /\ ret.kind = "returned"
               /\ ret.status = Some(given)
               /\ ret.date = <<>>
               /\ ret.parsed = <<>>

\* C12: the three extractors raise for no text: a text that does not parse
\* comes back as the raw status with no date.
C12_ExtractorsNeverRaise ==
    ret.fn # "none" =>
        /\ ret.kind = "returned"
        /\ ret.parsed # <<>> /\ ParseFails(ret.parsed[1]) => ret.status = Some(given) /\ ret.date = <<>>

\* C13: _extract_disclosure_date on a text starting with "Disclosure Issued : "
\* gives status "Disclosure Issued" and parse of the rest; on any other text
\* the date is None and the status is the text, or None for the empty text.
C13_DisclosureStatus ==
    ret.fn = "_extract_disclosure_date" =>
        IF StartsWith(given, PrefixDisclosureIssued)
          THEN LET rest == SubSeq(given, Len(PrefixDisclosureIssued) + 1, Len(given))
               IN  /\ ret.parsed = Some(rest)
                   /\ ret.kind = "returned" <=> ~ParseFails(rest)
                   /\ ret.kind = "returned" =>
                          ret.status = Some(S_DisclosureIssued) /\ ret.date = parse(rest)
          ELSE /\ ret.kind = "returned"
               /\ ret.date = <<>>
               /\ ret.parsed = <<>>
               /\ given # <<>> => ret.status = Some(given)
               /\ given = <<>> => ret.status = <<>>

\* the empty text, as get_roles_detail gives it for a missing field
C13_Witness ==
    /\ ret.fn = "_extract_disclosure_date"
    /\ given = <<>>
    /\ ret.kind = "returned"
    /\ ret.status = <<>>

-----------------------------------------------------------------------------
(* The Training page parsed by get_training_tab *)

InitTraining ==
    /\ ReducerIdle
    /\ page \in UNION {TrainingPagesOf(101, n) : n \in 0..MaxModules}
    /\ popup = NoPopup
    /\ today = 3
    /\ debug = FALSE
    /\ call = NoCall
    /\ prev = NoCall
    /\ addr_in = <<>>
    /\ addr_out = <<>>
    /\ given = <<>>
    /\ ret = <<>>
    /\ logon = <<>>
    /\ report = <<>>

NextTraining == GetTrainingTab

SpecTraining == InitTraining /\ [][NextTraining]_vars

\* the module rows of the page: those of class "msTR trMTMN", plan by plan
CountedRows(p) == SelectSeq(page.plps[p].rows, LAMBDA r : r.class = ModuleRowClass)

AllCountedRows == UNION { {CountedRows(p)[k] : k \in 1..Len(CountedRows(p))} : p \in DOMAIN page.plps }

\* a title is a code, " - " and a name
TitleHasCode(row) == Occurrences(row.title, S_SpaceDashSpace) # {}

\* the code of a title: what stands before its first " - "
TitleCode(row) ==
    LET at == Occurrences(row.title, S_SpaceDashSpace)
    IN  SubSeq(row.title, 1, (CHOOSE k \in at : \A j \in at : k <= j) - 1)

\* the code holds GDPR, in any case
GdprCoded(code) == \E i \in 1..(Len(code) - 3) : Lower(SubSeq(code, i, i + 3)) = S_gdpr

TrainingCalled == call.parser = "get_training_tab"

TrainingReturned == TrainingCalled /\ call.kind \in {"MemberMandatoryTraining", "MemberTrainingTab"}

TypesOnPage == {mogl_map[page.ogl[k].code] : k \in 1..Len(page.ogl)}

\* C15: the mandatory learning mapping has exactly the keys gdpr, safety,
\* safeguarding and first_aid; a type without a row on the page is in it
\* with empty sub-fields.
C15_FourLearningTypes ==
    TrainingReturned =>
        /\ DOMAIN call.mandatory = {"gdpr", "safety", "safeguarding", "first_aid"}
        /\ \A t \in {"safety", "safeguarding", "first_aid"} \ TypesOnPage : call.mandatory[t] = {}

\* a page with a safety row alone
C15_Witness ==
    /\ TrainingReturned
    /\ TypesOnPage = {"safety"}
    /\ call.mandatory["safety"] # {}
    /\ call.mandatory["first_aid"] = {}

\* the validated dates of the rows of code GDPR, as the page has them
PageGdprDays ==
    { DayOf(r.validated) : r \in { x \in AllCountedRows :
                                      /\ TitleHasCode(x)
                                      /\ TitleCode(x) = S_GDPR
                                      /\ x.validated # <<>> } }

\* C16: the gdpr completed_date is the latest validated date of the modules
\* of code GDPR of all learning plans, those without a date left out, and
\* None when there is none; with and without ongoing_only alike.
C16_LatestGdprDate ==
    TrainingReturned =>
        call.mandatory["gdpr"] =
            { <<"completed_date",
                IF PageGdprDays = {} THEN <<>>
                ELSE Some(CHOOSE d \in PageGdprDays : \A x \in PageGdprDays : x <= d)>> }

\* two plans, the later date in the first, read with ongoing_only
C16_Witness ==
    /\ TrainingReturned
    /\ call.ongoing_only
    /\ Len(page.plps[1].rows) = 1
    /\ Len(page.plps[2].rows) = 1
    /\ page.plps[1].rows[1].validated = D03
    /\ page.plps[2].rows[1].validated = D01
    /\ call.mandatory["gdpr"] = { <<"completed_date", Some(3)>> }

-----------------------------------------------------------------------------
(* The Permits page parsed by get_permits_tab *)

InitPermits ==
    /\ ReducerIdle
    /\ page \in UNION {PermitsPagesOf(101, n) : n \in 0..MaxPermits}
    /\ popup = NoPopup
    /\ today = 3
    /\ debug = FALSE
    /\ call = NoCall
    /\ prev = NoCall
    /\ addr_in = <<>>
    /\ addr_out = <<>>
    /\ given = <<>>
    /\ ret = <<>>
    /\ logon = <<>>
    /\ report = <<>>

NextPermits == GetPermitsTab

SpecPermits == InitPermits /\ [][NextPermits]_vars

PermitRows == SelectSeq(page.permits, LAMBDA r : r.class = PermitRowClass)

PermitsReturned == call.parser = "get_permits_tab" /\ call.kind = "list[MemberPermit]"

\* one permit per row of class "msTR msTRPERM", in page order, each with
\* parse of its expiry text unless that text is "Revoked"
PermitPerRow ==
    /\ Len(call.permits) = Len(PermitRows)
    /\ \A k \in 1..Len(PermitRows) :
          /\ call.permits[k].permit_type = PermitRows[k].permit_type
          /\ PermitRows[k].expires # S_Revoked => call.permits[k].expires = parse(PermitRows[k].expires)
          /\ PermitRows[k].expires = S_Revoked => call.permits[k].expires = <<>>

\* C17 as first stated: one permit per row of the class, in page order, whose
\* expires is None if and only if the expiry text is exactly "Revoked".
C17_NoneIffRevoked ==
    PermitsReturned =>
        /\ PermitPerRow
        /\ \A k \in 1..Len(PermitRows) :
              call.permits[k].expires = <<>> <=> PermitRows[k].expires = S_Revoked

\* C17: one permit per row of the class, in page order, whose expires is
\* None if the expiry text is exactly "Revoked" or is empty, and otherwise the
\* date parse makes of the text.
C17_NoneIfRevokedOrEmpty ==
    PermitsReturned =>
        /\ PermitPerRow
        /\ \A k \in 1..Len(PermitRows) :
              call.permits[k].expires = <<>> <=> PermitRows[k].expires \in {S_Revoked, <<>>}

\* a revoked permit after a row of another class
C17_Witness ==
    /\ PermitsReturned
    /\ Len(page.permits) = 2
    /\ page.permits[1].class # PermitRowClass
    /\ page.permits[2].expires = S_Revoked
    /\ Len(call.permits) = 1
    /\ call.permits[1].expires = <<>>

-----------------------------------------------------------------------------
(* The role popup parsed by get_roles_detail *)

InitDetail ==
    /\ ReducerIdle
    /\ page = DeniedPage(101)
    /\ popup \in DetailPopups \cup Popups
    /\ today = 3
    /\ debug = FALSE
    /\ call = NoCall
    /\ prev = NoCall
    /\ addr_in = <<>>
    /\ addr_out = <<>>
    /\ given = <<>>
    /\ ret = <<>>
    /\ logon = <<>>
    /\ report = <<>>

NextDetail == GetRolesDetail \/ SetDebug

SpecDetail == InitDetail /\ [][NextDetail]_vars

Placeholders == {S_NotSelected, S_NoItems, S_NoLineManager}

\* C18: the record of get_roles_detail carries no placeholder string: a
\* level of the hierarchy whose option is a placeholder is left out of the
\* hierarchy, and a placeholder selected as line manager gives line_manager
\* None and line_manager_number None.
C18_NoPlaceholderKept ==
    call.parser = "get_roles_detail" /\ call.kind = "MemberRolePopup" =>
        /\ \A kv \in call.hierarchy : kv[2] = <<>> \/ kv[2][1] \notin Placeholders
        /\ Cardinality(call.hierarchy) =
              Cardinality({k \in 1..Len(popup.levels) :
                              popup.levels[k].option = <<>> \/ popup.levels[k].option[1] \notin Placeholders})
        /\ call.line_manager = <<>> \/ call.line_manager[1] \notin Placeholders
        /\ popup.line_manager # <<>> /\ popup.line_manager[1].text \in Placeholders =>
              call.line_manager = <<>> /\ call.line_manager_number = <<>>

-----------------------------------------------------------------------------
(* cast (src/utility.py): values are tagged with their Python type and carry
   the characters of a str, the number of an int, a bool (0, 1) or a finite
   float (in tenths), and the items of a list *)

StrV(s) == [t |-> "str", s |-> s, n |-> 0, items |-> <<>>]

NoneV == [t |-> "NoneType", s |-> <<>>, n |-> 0, items |-> <<>>]

IntV(n) == [t |-> "int", s |-> <<>>, n |-> n, items |-> <<>>]

BoolV(b) == [t |-> "bool", s |-> <<>>, n |-> IF b THEN 1 ELSE 0, items |-> <<>>]

\* a finite float
FloatV(tenths) == [t |-> "float", s |-> <<>>, n |-> tenths, items |-> <<>>]

S_nan == <<"n", "a", "n">>

S_inf == <<"i", "n", "f">>

S_MinusInf == <<"-", "i", "n", "f">>

\* float("nan"), float("inf"), float("-inf")
FloatX(name) == [t |-> "float", s |-> name, n |-> 0, items |-> <<>>]

ListV(items) == [t |-> "list", s |-> <<>>, n |-> 0, items |-> items]

S_True == <<"T", "r", "u", "e">>

S_False == <<"F", "a", "l", "s", "e">>

S_None == <<"N", "o", "n", "e">>

S_MinusSpaceOne == <<"-", " ", "1">>

S_PaddedTwelve == <<" ", "1", "2", " ">>

MaxCastLen == 3

CastChars == {"0", "1", "-", "a", "[", "]"}

CastTexts ==
    UNION {[1..n -> CastChars] : n \in 0..MaxCastLen}
        \cup {S_True, S_False, S_None, S_abc, S_MinusSpaceOne, S_PaddedTwelve}

CastValues ==
    {StrV(s) : s \in CastTexts}
        \cup {NoneV, IntV(0), IntV(7), BoolV(TRUE), BoolV(FALSE),
              FloatV(0), FloatV(25), FloatV(-25), FloatX(S_nan), FloatX(S_inf), FloatX(S_MinusInf),
              ListV(<<>>), ListV(<<IntV(1)>>)}

Ok(value) == [ok |-> TRUE, value |-> value, errors |-> {}]

\* the call raises one of errors
Err(errors) == [ok |-> FALSE, value |-> <<>>, errors |-> errors]

AllDigits(s) == s # <<>> /\ \A k \in 1..Len(s) : s[k] \in DOMAIN Digits

RECURSIVE DigitsValue(_)
DigitsValue(s) == IF s = <<>> THEN 0 ELSE 10 * DigitsValue(SubSeq(s, 1, Len(s) - 1)) + Digits[s[Len(s)]]

\* int(text): white space around an optional sign and digits
IntOfText(text) ==
    LET s == Strip(text)
        body == IF s # <<>> /\ s[1] = "-" THEN Tail(s) ELSE s
    IN  IF AllDigits(body)
          THEN Ok(IF s[1] = "-" THEN 0 - DigitsValue(body) ELSE DigitsValue(body))
          ELSE Err({"ValueError"})

\* int(value)
IntOf(value) ==
    CASE value.t = "str" -> IntOfText(value.s)
      [] value.t \in {"int", "bool"} -> Ok(value.n)
      [] value.t = "float" ->
           IF value.s = S_nan THEN Err({"ValueError"})
           ELSE IF value.s \in {S_inf, S_MinusInf} THEN Err({"OverflowError"})
           ELSE Ok(IF value.n < 0 THEN 0 - ((0 - value.n) \div 10) ELSE value.n \div 10)
      [] OTHER -> Err({"TypeError"})

\* bool(value)
Truthy(value) ==
    CASE value.t = "str" -> value.s # <<>>
      [] value.t = "list" -> value.items # <<>>
      [] value.t = "NoneType" -> FALSE
      [] OTHER -> value.s # <<>> \/ value.n # 0

\* str(value), for the values literal_eval is given
StrOf(value) ==
    CASE value.t = "str" -> value.s
      [] value.t = "float" -> S_nan
      [] value.t = "list" -> <<"[">> \o (IF value.items = <<>> THEN <<>> ELSE <<"1">>) \o <<"]">>
      [] OTHER -> <<>>

\* the tokens of a source text from position k on: brackets, the minus sign,
\* and runs of other characters, numbers when they start with a digit
RECURSIVE Tokens(_, _)
Tokens(s, k) ==
    IF k > Len(s) THEN <<>>
    ELSE IF s[k] = " " THEN Tokens(s, k + 1)
    ELSE IF s[k] \in {"[", "]", "-"} THEN <<[t |-> "op", v |-> <<s[k]>>]>> \o Tokens(s, k + 1)
    ELSE LET stops == {j \in k..Len(s) : s[j] \in {" ", "[", "]", "-"}}
             e == IF stops = {} THEN Len(s)
                  ELSE (CHOOSE j \in stops : \A i \in stops : j <= i) - 1
         IN  <<[t |-> IF s[k] \in DOMAIN Digits THEN "num" ELSE "name", v |-> SubSeq(s, k, e)]>>
                 \o Tokens(s, e + 1)

\* a decimal integer literal: no leading zero on a number other than zero
DecimalOk(s) == AllDigits(s) /\ (s[1] = "0" => \A k \in 1..Len(s) : s[k] = "0")

\* the literal a sequence of tokens spells: a number, a negated number, True,
\* False, None, or a list of at most one literal
RECURSIVE Literal(_)
Literal(toks) ==
    LET n == Len(toks)
    IN  IF n = 1 /\ toks[1].t = "num" /\ DecimalOk(toks[1].v)
          THEN Ok(IntV(DigitsValue(toks[1].v)))
        ELSE IF n = 1 /\ toks[1].t = "name" /\ toks[1].v \in {S_True, S_False}
          THEN Ok(BoolV(toks[1].v = S_True))
        ELSE IF n = 1 /\ toks[1].t = "name" /\ toks[1].v = S_None
          THEN Ok(NoneV)
        ELSE IF n = 2 /\ toks[1] = [t |-> "op", v |-> <<"-">>] /\ toks[2].t = "num" /\ DecimalOk(toks[2].v)
          THEN Ok(IntV(0 - DigitsValue(toks[2].v)))
        ELSE IF n = 2 /\ toks[1].v = <<"[">> /\ toks[2].v = <<"]">>
          THEN Ok(ListV(<<>>))
        ELSE IF n > 2 /\ toks[1].v = <<"[">> /\ toks[n].v = <<"]">>
          THEN LET inner == Literal(SubSeq(toks, 2, n - 1))
               IN  IF inner.ok THEN Ok(ListV(<<inner.value>>))
                   ELSE Err({"ValueError", "SyntaxError"})
        ELSE Err({"ValueError", "SyntaxError"})

\* ast.literal_eval(text): the value of a literal; ValueError or SyntaxError for
\* any other text
literal_eval(text) == Literal(Tokens(text, 1))

CastReturned(value) == [fn |-> "cast", kind |-> "returned", value |-> value, errors |-> {}]

CastRaised(errors) == [fn |-> "cast", kind |-> "raised", value |-> NoneV, errors |-> errors]

\* except (ValueError, TypeError) around int(value)
CaughtOuter == {"ValueError", "TypeError"}

\* except (ValueError, TypeError, SyntaxError) around ast.literal_eval
CaughtInner == {"ValueError", "TypeError", "SyntaxError"}

cast(value) ==
    LET i == IntOf(value)
    IN  IF i.ok THEN CastReturned(IntV(i.value))
        ELSE IF ~(i.errors \subseteq CaughtOuter) THEN CastRaised(i.errors)
        ELSE IF ~Truthy(value) THEN CastReturned(value)
        ELSE LET l == literal_eval(StrOf(value))
             IN  IF l.ok THEN CastReturned(l.value)
                 ELSE IF ~(l.errors \subseteq CaughtInner) THEN CastRaised(l.errors)
                 ELSE CastReturned(value)

InitCast ==
    /\ ReducerIdle
    /\ page = <<>>
    /\ popup = <<>>
    /\ today = 0
    /\ debug = FALSE
    /\ call = <<>>
    /\ prev = <<>>
    /\ addr_in = <<>>
    /\ addr_out = <<>>
    /\ given \in CastValues
    /\ ret = NoRet
    /\ logon = <<>>
    /\ report = <<>>

CallCast ==
    /\ ret.kind = "none"
    /\ ret' = cast(given)
    /\ UNCHANGED <<dl, pending, emitted, rpc, duration, page, popup, today, debug, call, prev, addr_in, addr_out, given, logon, report>>

NextCast == CallCast

SpecCast == InitCast /\ [][NextCast]_vars

\* C19: cast raises for no value: it returns the integer when int(value)
\* succeeds; otherwise, for a truthy value, the literal str(value) spells when
\* literal_eval succeeds; otherwise the value it was given.
C19_CastNeverRaises ==
    ret.fn = "cast" =>
        /\ ret.kind = "returned"
        /\ ret.value =
             IF IntOf(given).ok THEN IntV(IntOf(given).value)
             ELSE IF Truthy(given) /\ literal_eval(StrOf(given)).ok
               THEN literal_eval(StrOf(given)).value
             ELSE given

-----------------------------------------------------------------------------
(* _get_member_profile_tab: the request for one tab of MemberProfile.aspx *)

T_Personal == <<"P", "e", "r", "s", "o", "n", "a", "l">>

T_Roles == <<"R", "o", "l", "e", "s">>

T_Permits == <<"P", "e", "r", "m", "i", "t", "s">>

T_Training == <<"T", "r", "a", "i", "n", "i", "n", "g">>

T_Awards == <<"A", "w", "a", "r", "d", "s">>

T_Emergency == <<"E", "m", "e", "r", "g", "e", "n", "c", "y">>

T_Comms == <<"C", "o", "m", "m", "s">>

T_Visibility == <<"V", "i", "s", "i", "b", "i", "l", "i", "t", "y">>

T_Disclosures == <<"D", "i", "s", "c", "l", "o", "s", "u", "r", "e", "s">>

MEMBER_PROFILE_TAB_TYPES ==
    <<T_Personal, T_Roles, T_Permits, T_Training, T_Awards, T_Emergency, T_Comms, T_Visibility, T_Disclosures>>

S_PERSONAL == <<"P", "E", "R", "S", "O", "N", "A", "L">>

S_MemberProfileCN == <<"/", "M", "e", "m", "b", "e", "r", "P", "r", "o", "f", "i", "l", "e", ".", "a", "s", "p", "x", "?", "C", "N", "=">>

S_AmpPage == <<"&", "P", "a", "g", "e", "=">>

S_AmpTAB == <<"&", "T", "A", "B">>

\* Settings.base_url
base_url == <<"h", "t", "t", "p", "s", ":", "/", "/", "c", "o", "m", "p", "a", "s", "s", ".", "s", "c", "o", "u", "t", "s", ".", "o", "r", "g", ".", "u", "k">>

\* names that are no tab: a tab cut short, a tab with a letter or a blank
\* added, and the empty name
T_Role == <<"R", "o", "l", "e">>

T_Rolesx == <<"R", "o", "l", "e", "s", "x">>

T_PersonalBlank == <<"P", "e", "r", "s", "o", "n", "a", "l", " ">>

\* str.upper()
Upper(s) ==
    [k \in 1..Len(s) |->
        IF \E u \in DOMAIN UpperToLower : UpperToLower[u] = s[k]
          THEN CHOOSE u \in DOMAIN UpperToLower : UpperToLower[u] = s[k]
          ELSE s[k]]

\* a name with the case of its first letter changed
SwapFirst(s) ==
    IF s = <<>> THEN s
    ELSE IF s[1] \in DOMAIN UpperToLower THEN Lower(<<s[1]>>) \o Tail(s)
    ELSE Upper(<<s[1]>>) \o Tail(s)

TabNames ==
    UNION {{MEMBER_PROFILE_TAB_TYPES[k], Upper(MEMBER_PROFILE_TAB_TYPES[k]),
            Lower(MEMBER_PROFILE_TAB_TYPES[k]), SwapFirst(MEMBER_PROFILE_TAB_TYPES[k])} :
              k \in 1..Len(MEMBER_PROFILE_TAB_TYPES)}
        \cup {T_Role, T_Rolesx, T_PersonalBlank, Upper(T_Rolesx), <<>>}

MaxMembers == 2

MembershipNums == 9..(9 + MaxMembers)

\* what the server answers
TabContents == {"<html>a</html>", "<html>b</html>"}

DigitChars == <<"0", "1", "2", "3", "4", "5", "6", "7", "8", "9">>

\* an int in an f-string
RECURSIVE Decimal(_)
Decimal(n) == IF n < 10 THEN <<DigitChars[n + 1]>> ELSE Decimal(n \div 10) \o <<DigitChars[(n % 10) + 1]>>

\* tuple(tab.upper() for tab in get_args(MEMBER_PROFILE_TAB_TYPES))
tabs == [k \in 1..Len(MEMBER_PROFILE_TAB_TYPES) |-> Upper(MEMBER_PROFILE_TAB_TYPES[k])]

\* the tab names as they are written
InTabsAsWritten(tab_upper) == \E k \in 1..Len(MEMBER_PROFILE_TAB_TYPES) : MEMBER_PROFILE_TAB_TYPES[k] = tab_upper

\* tab_upper in tabs
InTabs(tab_upper) == \E k \in 1..Len(tabs) : tabs[k] = tab_upper

Get(url) == [method |-> "GET", url |-> url]

\* the requests sent and the bytes returned, or the error raised
_get_member_profile_tab(membership_num, profile_tab, content) ==
    LET tab_upper == Upper(profile_tab)
        url == base_url \o S_MemberProfileCN \o Decimal(membership_num)
    IN  IF tab_upper = S_PERSONAL
          THEN [fn |-> "_get_member_profile_tab", kind |-> "returned", requests |-> <<Get(url)>>,
                content |-> content]
        ELSE IF InTabs(tab_upper)
          THEN [fn |-> "_get_member_profile_tab", kind |-> "returned",
                requests |-> <<Get(url \o S_AmpPage \o tab_upper \o S_AmpTAB)>>, content |-> content]
        ELSE [fn |-> "_get_member_profile_tab", kind |-> "ValueError", requests |-> <<>>, content |-> ""]

InitProfileTab ==
    /\ ReducerIdle
    /\ page = <<>>
    /\ popup = <<>>
    /\ today = 0
    /\ debug = FALSE
    /\ call = <<>>
    /\ prev = <<>>
    /\ addr_in = <<>>
    /\ addr_out = <<>>
    /\ given \in [membership_num : MembershipNums, profile_tab : TabNames]
    /\ ret = NoRet
    /\ logon = <<>>
    /\ report = <<>>

GetMemberProfileTab ==
    /\ ret.kind = "none"
    /\ \E content \in TabContents :
          ret' = _get_member_profile_tab(given.membership_num, given.profile_tab, content)
    /\ UNCHANGED <<dl, pending, emitted, rpc, duration, page, popup, today, debug, call, prev, addr_in, addr_out, given, logon, report>>

NextProfileTab == GetMemberProfileTab

SpecProfileTab == InitProfileTab /\ [][NextProfileTab]_vars

\* the allowed tab a name spells when case is ignored, if there is one
AllowedTabOf(name) ==
    {k \in 1..Len(MEMBER_PROFILE_TAB_TYPES) : Lower(MEMBER_PROFILE_TAB_TYPES[k]) = Lower(name)}

\* <base>/MemberProfile.aspx?CN=<membership_num>
MemberProfileUrl(membership_num) == base_url \o S_MemberProfileCN \o Decimal(membership_num)

\* C20: _get_member_profile_tab takes a name that is one of the nine tabs when
\* case is ignored and sends exactly one GET: to MemberProfile.aspx?CN=<number>
\* for Personal, with &Page=<TAB>&TAB added for any other tab; for any other
\* name it raises ValueError and sends nothing.
C20_OneGetPerAllowedTab ==
    /\ Len(tabs) = 9
    /\ ret.fn = "_get_member_profile_tab" =>
          IF AllowedTabOf(given.profile_tab) # {}
            THEN /\ ret.kind = "returned"
                 /\ Len(ret.requests) = 1
                 /\ ret.requests[1].method = "GET"
                 /\ \A k \in AllowedTabOf(given.profile_tab) :
                       ret.requests[1].url =
                         IF MEMBER_PROFILE_TAB_TYPES[k] = T_Personal
                           THEN MemberProfileUrl(given.membership_num)
                           ELSE MemberProfileUrl(given.membership_num) \o S_AmpPage
                                  \o Upper(MEMBER_PROFILE_TAB_TYPES[k]) \o S_AmpTAB
            ELSE ret.kind = "ValueError" /\ ret.requests = <<>>

\* a tab other than Personal was asked for in another case than it is written
\* in and its page was requested
C20_Witness ==
    /\ ret.fn = "_get_member_profile_tab"
    /\ ret.kind = "returned"
    /\ ~InTabsAsWritten(given.profile_tab)
    /\ Upper(given.profile_tab) # S_PERSONAL
    /\ given.membership_num >= 10
    /\ Len(ret.requests) = 1

-----------------------------------------------------------------------------
(* The statuses filter of get_roles_tab *)

\* statuses: None, or a set of accepted status strings, the empty set included
AllStatusFilters == StatusFilters \cup {Some({}), Some({S_Full, S_Cancelled})}

InitStatuses ==
    /\ ReducerIdle
    /\ page \in UNION {RolesPagesOf(101, RoleContents, {FALSE}, n) : n \in 0..MaxRows}
    /\ popup = NoPopup
    /\ today = 3
    /\ debug = FALSE
    /\ call = NoCall
    /\ prev = NoCall
    /\ addr_in = <<>>
    /\ addr_out = <<>>
    /\ given = <<>>
    /\ ret = <<>>
    /\ logon = <<>>
    /\ report = <<>>

GetRolesTabFiltered ==
    /\ \E keep \in BOOLEAN, statuses \in AllStatusFilters :
          call' = RolesTabCall(page, page.cn, keep, statuses, today)
    /\ UNCHANGED <<dl, pending, emitted, rpc, duration, page, popup, today, debug, prev, addr_in, addr_out, given, ret, logon, report>>

NextStatuses == GetRolesTabFiltered

SpecStatuses == InitStatuses /\ [][NextStatuses]_vars

\* the row passes the non-volunteer filter of the call
RowPassesFilter(row) == call.keep \/ ~RowNonVolunteer(row)

\* C21: with a statuses set, every role of the returned mapping has a status
\* in the set and every row that passes the non-volunteer filter and has a
\* status in the set is in the mapping; with statuses None every row that
\* passes the non-volunteer filter is in the mapping; with the empty set the
\* mapping is returned empty.
C21_StatusFilter ==
    RolesParsed =>
        /\ call.kind = "MemberRolesCollection"
        /\ call.statuses # <<>> =>
              \A k \in DOMAIN call.roles : call.roles[k].role_status \in call.statuses[1]
        /\ \A j \in 1..Len(page.rows) :
              RowPassesFilter(page.rows[j])
                /\ (call.statuses = <<>> \/ RowStatus(page.rows[j]) \in call.statuses[1])
                  => page.rows[j].data_pk \in DOMAIN call.roles
        /\ call.statuses = Some({}) => DOMAIN call.roles = {}

-----------------------------------------------------------------------------
(* CompassLogon (src/compass_logon.py): the sessions it creates, the requests
   it sends and what it keeps of the portal page.  A dict is the set of its
   <<key, value>>. *)

R_Leader == <<"L", "e", "a", "d", "e", "r">>

R_Admin == <<"A", "d", "m", "i", "n">>

R_AdminPadded == <<" ", "A", "d", "m", "i", "n", " ">>

R_Nobody == <<"N", "o", "b", "o", "d", "y">>

\* role_to_use: no role (""), a role of the page, one with blanks around it,
\* and a role the page does not have
RolesToUse == {<<>>, R_Leader, R_AdminPadded, R_Nobody}

N_11 == <<"1", "1">>

N_12 == <<"1", "2">>

RoleNumbers == {N_11, N_12}

\* the options of ctl00$UserTitleMenu$cboUCRoles
RoleOptions == << [text |-> R_Leader, value |-> N_11], [text |-> R_AdminPadded, value |-> N_12] >>

\* the portal pages: the pairs of ctl00$_POST_CTRL, the selected role and the
\* options of the roles select
PortalPages ==
    { [ post_ctrl |-> << <<"Master.User.CN", <<"7">> >>, <<"Master.User.MRN", mrn>>,
                         <<"Master.Sys.SessionID", sid>> >>,
        selected |-> sel, options |-> RoleOptions ] :
          mrn \in RoleNumbers, sel \in RoleNumbers, sid \in {<<"a">>, <<"b">>} }

\* the calls of do_logon on one object
MaxLogons == 2

HasKey(dict, key) == \E p \in dict : p[1] = key

Lookup(dict, key) == (CHOOSE p \in dict : p[1] = key)[2]

NoHeaders == [Authorization |-> <<>>, SID |-> <<>>]

Request(method, url, session) == [method |-> method, url |-> url, session |-> session]

\* the object after __init__ has set its attributes, before do_logon
NewLogon ==
    [ pc |-> "init", logons |-> 0, role_to_use |-> <<>>, sessions |-> <<>>, session |-> 0,
      self_session |-> <<>>, compass_dict |-> {}, roles_dict |-> {}, requests |-> <<>>,
      total_requests |-> 0, logged_in |-> FALSE, page |-> <<>>, check_role_number |-> <<>>,
      before |-> <<>>, error |-> "" ]

\* the cookie check never fails
NoCookiesNever(cookies) == FALSE

\* not session.cookies
NoCookies(cookies) == cookies = {}

\* total_requests is left as it is
CountedNot(total_requests) == total_requests

\* CompassSettings.total_requests += 1
Counted(total_requests) == total_requests + 1

\* create_session; cookies is what the server set on the HEAD request
create_session(lg, cookies) ==
    LET id == Len(lg.sessions) + 1
        made == [lg EXCEPT !.sessions = Append(@, [cookies |-> cookies, headers |-> NoHeaders]),
                           !.session = id,
                           !.requests = Append(@, Request("HEAD", "/", id)),
                           !.total_requests = Counted(@)]
    IN  IF NoCookies(cookies)
          THEN [made EXCEPT !.pc = "failed", !.error = "No cookie found, terminating."]
          ELSE [made EXCEPT !.pc = "created", !.self_session = Some(id)]

\* _logon: self.post of the credentials, on self.session
_logon(lg, accepted) ==
    [lg EXCEPT !.requests = Append(@, Request("POST", "/Login.ashx", lg.self_session[1])),
               !.total_requests = Counted(@),
               !.logged_in = accepted,
               !.pc = "posted"]

\* create_compass_dict: of two pairs with one key the later one stays
create_compass_dict(pairs) ==
    { pairs[j] : j \in {i \in 1..Len(pairs) : \A l \in (i + 1)..Len(pairs) : pairs[l][1] # pairs[i][1]} }

\* create_roles_dict: role name to role number, both stripped
create_roles_dict(options) ==
    { <<Strip(options[j].text), Strip(options[j].value)>> :
        j \in {i \in 1..Len(options) : \A l \in (i + 1)..Len(options) :
                                          Strip(options[l].text) # Strip(options[i].text)} }

\* the headers of the properties held before the page was read
AuthHeadersStale(old_dict, compass_dict) ==
    IF old_dict = {} THEN NoHeaders
    ELSE [ Authorization |-> Some(Lookup(old_dict, "Master.User.CN") \o <<"~">> \o Lookup(old_dict, "Master.User.MRN")),
           SID |-> Some(Lookup(old_dict, "Master.Sys.SessionID")) ]

\* auth_headers: self.cn and self.mrn read self.compass_dict, which
\* create_compass_dict has just set to compass_dict
AuthHeaders(old_dict, compass_dict) ==
    [ Authorization |-> Some(Lookup(compass_dict, "Master.User.CN") \o <<"~">>
                               \o Lookup(compass_dict, "Master.User.MRN")),
      SID |-> Some(Lookup(compass_dict, "Master.Sys.SessionID")) ]

\* the selected role is never compared
RoleNotSelectedNever(check_role_number, selected) == FALSE

\* check_role_number and get_selected_role_number(form) != check_role_number
RoleNotSelected(check_role_number, selected) ==
    check_role_number # <<>> /\ selected # check_role_number[1]

\* confirm_success_and_update(session, check_url, check_role_number) when the
\* GET of the portal lands on the portal (landed) and answers page pg
confirm_success_and_update(lg, pg, landed, check_url, check_role_number) ==
    LET sent == [lg EXCEPT !.requests = Append(@, Request("GET", "/ScoutsPortal.aspx", lg.self_session[1])),
                           !.total_requests = Counted(@),
                           !.check_role_number = check_role_number,
                           !.before = Some([compass_dict |-> lg.compass_dict,
                                            headers |-> lg.sessions[lg.session].headers]),
                           !.page = IF landed THEN Some(pg) ELSE <<>>]
        compass_dict == create_compass_dict(pg.post_ctrl)
        updated == [sent EXCEPT !.compass_dict = compass_dict,
                                !.roles_dict = create_roles_dict(pg.options),
                                !.sessions[lg.session].headers = AuthHeaders(lg.compass_dict, compass_dict)]
    IN  IF check_url /\ ~landed
          THEN [sent EXCEPT !.pc = "failed", !.error = "Login has failed"]
        ELSE IF RoleNotSelected(check_role_number, pg.selected)
          THEN [sent EXCEPT !.pc = "failed", !.error = "Role failed to update in Compass"]
        ELSE IF check_role_number # <<>> /\ check_role_number[1] # Lookup(compass_dict, "Master.User.MRN")
          THEN [updated EXCEPT !.pc = "failed", !.error = "Compass Authentication failed to update"]
        ELSE [updated EXCEPT !.pc = "confirmed"]

\* do_logon begins (from __init__, or called again): create_session
CreateSession ==
    /\ logon.pc \in {"init", "done", "failed"}
    /\ logon.logons < MaxLogons
    /\ \E role \in RolesToUse, cookies \in {{}, {"ASP.NET_SessionId"}} :
          logon' = create_session([logon EXCEPT !.logons = @ + 1, !.role_to_use = role, !.error = "",
                                                !.check_role_number = <<>>, !.before = <<>>,
                                                !.page = <<>>], cookies)
    /\ UNCHANGED <<dl, pending, emitted, rpc, duration, page, popup, today, debug, call, prev, addr_in, addr_out, given, ret, report>>

\* self._logon(credentials); the server accepts the credentials or not
PostCredentials ==
    /\ logon.pc = "created"
    /\ \E accepted \in BOOLEAN : logon' = _logon(logon, accepted)
    /\ UNCHANGED <<dl, pending, emitted, rpc, duration, page, popup, today, debug, call, prev, addr_in, addr_out, given, ret, report>>

\* confirm_success_and_update(session, check_url=True), then the test of
\* role_to_use: without a role do_logon returns
ConfirmLogin ==
    /\ logon.pc = "posted"
    /\ \E pg \in PortalPages :
          LET lg == confirm_success_and_update(logon, pg, logon.logged_in, TRUE, <<>>)
          IN  logon' = IF lg.pc = "confirmed" /\ lg.role_to_use = <<>> THEN [lg EXCEPT !.pc = "done"] ELSE lg
    /\ UNCHANGED <<dl, pending, emitted, rpc, duration, page, popup, today, debug, call, prev, addr_in, addr_out, given, ret, report>>

\* change_role up to the end of _change_role: roles_dict[new_role], then the
\* POST of API/ChangeRole
PostChangeRole ==
    /\ logon.pc = "confirmed"
    /\ LET new_role == Strip(logon.role_to_use)
       IN  logon' =
             IF ~HasKey(logon.roles_dict, new_role)
               THEN [logon EXCEPT !.pc = "failed", !.error = "KeyError"]
               ELSE [logon EXCEPT
                       !.requests = Append(@, Request("POST", "/API/ChangeRole", logon.self_session[1])),
                       !.total_requests = Counted(@),
                       !.check_role_number = Some(Lookup(logon.roles_dict, new_role)),
                       !.pc = "role_posted"]
    /\ UNCHANGED <<dl, pending, emitted, rpc, duration, page, popup, today, debug, call, prev, addr_in, addr_out, given, ret, report>>

\* confirm_success_and_update(session, check_role_number=member_role_number),
\* after which change_role and do_logon return
ConfirmRole ==
    /\ logon.pc = "role_posted"
    /\ \E pg \in PortalPages :
          LET lg == confirm_success_and_update(logon, pg, TRUE, FALSE, logon.check_role_number)
          IN  logon' = IF lg.pc = "confirmed" THEN [lg EXCEPT !.pc = "done"] ELSE lg
    /\ UNCHANGED <<dl, pending, emitted, rpc, duration, page, popup, today, debug, call, prev, addr_in, addr_out, given, ret, report>>

InitLogon ==
    /\ ReducerIdle
    /\ page = <<>>
    /\ popup = <<>>
    /\ today = 0
    /\ debug = FALSE
    /\ call = <<>>
    /\ prev = <<>>
    /\ addr_in = <<>>
    /\ addr_out = <<>>
    /\ given = <<>>
    /\ ret = <<>>
    /\ logon = NewLogon
    /\ report = <<>>

NextLogon == CreateSession \/ PostCredentials \/ ConfirmLogin \/ PostChangeRole \/ ConfirmRole

SpecLogon == InitLogon /\ [][NextLogon]_vars

\* the requests sent on session id, in the order they were sent
RECURSIVE RequestsOn(_, _)
RequestsOn(requests, id) ==
    IF requests = <<>> THEN <<>>
    ELSE (IF Head(requests).session = id THEN <<Head(requests)>> ELSE <<>>) \o RequestsOn(Tail(requests), id)

\* C22: when the HEAD request leaves the cookie jar of the new session
\* empty, create_session raises, the session does not become the session of
\* the object, and no request but that HEAD is ever sent on it; a session
\* that create_session returned holds the cookie and is the object's session.
C22_NoCookieNoSession ==
    /\ \A id \in 1..Len(logon.sessions) :
          logon.sessions[id].cookies = {} =>
              /\ logon.self_session # Some(id)
              /\ Len(RequestsOn(logon.requests, id)) = 1
              /\ RequestsOn(logon.requests, id)[1].method = "HEAD"
              /\ logon.session = id => logon.pc = "failed" /\ logon.error = "No cookie found, terminating."
    /\ logon.pc = "created" =>
          /\ logon.self_session = Some(logon.session)
          /\ logon.sessions[logon.session].cookies # {}

\* a second do_logon got no cookie, after a first that was given one and went on
C22_Witness ==
    /\ logon.pc = "failed"
    /\ logon.error = "No cookie found, terminating."
    /\ logon.session = 2
    /\ logon.self_session = Some(1)
    /\ Len(RequestsOn(logon.requests, 1)) >= 3

-----------------------------------------------------------------------------
(* A session rebuilt from stored properties (Logon.from_session) *)

StoredProps ==
    [cn : {<<"7">>}, mrn : RoleNumbers, session_id : {<<"a">>, <<"b">>}]

\* from_session: a client with the session cookie, the SID header and the
\* Authorization header of the stored properties; no request is sent
from_session(lg, props) ==
    [lg EXCEPT !.sessions = Append(@, [cookies |-> {"ASP.NET_SessionId"},
                                       headers |-> [Authorization |-> Some(props.cn \o <<"~">> \o props.mrn),
                                                    SID |-> Some(props.session_id)]]),
               !.session = Len(lg.sessions) + 1,
               !.self_session = Some(Len(lg.sessions) + 1),
               !.compass_dict = { <<"Master.User.CN", props.cn>>, <<"Master.User.MRN", props.mrn>>,
                                  <<"Master.Sys.SessionID", props.session_id>> },
               !.pc = "done"]

FromSession ==
    /\ logon.pc = "init"
    /\ \E props \in StoredProps : logon' = from_session(logon, props)
    /\ UNCHANGED <<dl, pending, emitted, rpc, duration, page, popup, today, debug, call, prev, addr_in, addr_out, given, ret, report>>

NextSession == NextLogon \/ FromSession

SpecSession == InitLogon /\ [][NextSession]_vars

\* C23: when a confirmation has completed normally, or a session was rebuilt
\* from stored properties, the headers of the session carry Authorization
\* "<cn>~<mrn>" and SID, the values of the current compass properties, which
\* are the ones of the portal page just read.
C23_AuthHeadersCurrent ==
    logon.pc \in {"confirmed", "done"} =>
        LET headers == logon.sessions[logon.self_session[1]].headers
            props == logon.compass_dict
        IN  /\ headers.Authorization =
                 Some(Lookup(props, "Master.User.CN") \o <<"~">> \o Lookup(props, "Master.User.MRN"))
            /\ headers.SID = Some(Lookup(props, "Master.Sys.SessionID"))
            /\ logon.page # <<>> =>
                 props = {logon.page[1].post_ctrl[k] : k \in 1..Len(logon.page[1].post_ctrl)}

\* a role change was confirmed and moved the headers from one role number to
\* another
C23_Witness ==
    /\ logon.pc = "done"
    /\ logon.check_role_number = Some(N_12)
    /\ logon.before # <<>>
    /\ logon.before[1].headers.Authorization = Some(<<"7", "~", "1", "1">>)
    /\ logon.sessions[logon.self_session[1]].headers.Authorization = Some(<<"7", "~", "1", "2">>)

-----------------------------------------------------------------------------
(* hash_code (src/utility.py).  A text is the sequence of the code points of
   its characters.  Numbers beyond 32 bits are held as hi * 65536 + lo with
   lo in 0..65535. *)

MaxHashLen == 4

\* ord() of the characters of the texts: "a", the last character of the
\* basic plane, U+1F600 and the last code point
HashCodePoints == {97, 65535, 128512, 1114111}

\* "testing"
CP_testing == <<116, 101, 115, 116, 105, 110, 103>>

HashTexts == UNION {[1..n -> HashCodePoints] : n \in 0..MaxHashLen} \cup {CP_testing}

\* 31 * code + ord(char), not yet wrapped
FoldStep(code, char) ==
    LET lo == 31 * code.lo + (char % 65536)
    IN  [hi |-> 31 * code.hi + (char \div 65536) + (lo \div 65536), lo |-> lo % 65536]

\* the low 32 bits read as an unsigned number
c_uint32(x) == [hi |-> x.hi % 65536, lo |-> x.lo]

\* ctypes.c_int32(x).value: the low 32 bits read as a signed number
c_int32(x) == [hi |-> ((x.hi + 32768) % 65536) - 32768, lo |-> x.lo]

\* functools.reduce(lambda code, char: c_int32(31 * code + ord(char)).value, list(text), 0)
RECURSIVE hash_code(_)
hash_code(text) ==
    IF text = <<>> THEN [hi |-> 0, lo |-> 0]
    ELSE c_int32(FoldStep(hash_code(SubSeq(text, 1, Len(text) - 1)), text[Len(text)]))

InitHash ==
    /\ ReducerIdle
    /\ page = <<>>
    /\ popup = <<>>
    /\ today = 0
    /\ debug = FALSE
    /\ call = <<>>
    /\ prev = <<>>
    /\ addr_in = <<>>
    /\ addr_out = <<>>
    /\ given \in HashTexts
    /\ ret = NoRet
    /\ logon = <<>>
    /\ report = <<>>

CallHashCode ==
    /\ ret.kind = "none"
    /\ ret' = [fn |-> "hash_code", kind |-> "returned", value |-> hash_code(given)]
    /\ UNCHANGED <<dl, pending, emitted, rpc, duration, page, popup, today, debug, call, prev, addr_in, addr_out, given, logon, report>>

NextHash == CallHashCode

SpecHash == InitHash /\ [][NextHash]_vars

\* the sum of ord(text[k]) * 31^(n-k), with every product and sum reduced
\* modulo 2^32, as hi * 65536 + lo with hi in 0..65535
RECURSIVE PolynomialSum(_)
PolynomialSum(text) ==
    IF text = <<>> THEN [hi |-> 0, lo |-> 0]
    ELSE LET s == PolynomialSum(SubSeq(text, 1, Len(text) - 1))
             lo == 31 * s.lo + (text[Len(text)] % 65536)
         IN  [hi |-> (31 * s.hi + (text[Len(text)] \div 65536) + (lo \div 65536)) % 65536,
              lo |-> lo % 65536]

\* C24: hash_code folds h := 31 * h + ord(char) from 0, wrapped to a signed
\* 32-bit integer: the result lies in [-2^31, 2^31 - 1], is 0 for the empty
\* text, and is congruent modulo 2^32 to the sum of ord(char) * 31^(n-k).
C24_SignedHash ==
    ret.fn = "hash_code" =>
        /\ ret.value.hi \in -32768..32767
        /\ ret.value.lo \in 0..65535
        /\ given = <<>> => ret.value = [hi |-> 0, lo |-> 0]
        /\ ret.value.lo = PolynomialSum(given).lo
        /\ (ret.value.hi - PolynomialSum(given).hi) % 65536 = 0
        /\ given = CP_testing => ret.value.hi * 65536 + ret.value.lo = -1422446064

\* a text whose fold passes 2^31 and whose hash is negative
C24_Witness ==
    /\ ret.fn = "hash_code"
    /\ Len(given) = MaxHashLen
    /\ ret.value.hi < 0

-----------------------------------------------------------------------------
(* Reports.get_report (compass/core/reports.py): the steps of one call *)

_report_types ==
    "Region Member Directory" :> 37 @@ "Region Appointments Report" :> 52 @@
    "Region Permit Report" :> 72 @@ "Region Disclosure Report" :> 76 @@
    "Region Training Report" :> 84 @@ "Region Disclosure Management Report" :> 100

\* the report types asked for: the six names, a name in another case, a name
\* that is no report and the empty name
ReportTypesAsked ==
    DOMAIN _report_types \cup {"region member directory", "County Member Directory", ""}

\* the calls of get_report on one Reports object
MaxReports == 2

\* what a step of the scraper does: it returns, or it raises
StepOutcomes == {"returned", "CompassReportError", "CompassReportPermissionError", "CompassNetworkError"}

NewReports ==
    [pc |-> "idle", calls |-> 0, report_type |-> "", number |-> 0, steps |-> <<>>, error |-> ""]

\* every step is followed by the next one
StepGoesOnAlways(outcome) == TRUE

\* an exception of a step leaves get_report
StepGoesOn(outcome) == outcome = "returned"

\* one call of the scraper made by get_report, and the statement reached next
ReportStep(rp, name, outcome, next_pc) ==
    IF StepGoesOn(outcome)
      THEN [rp EXCEPT !.steps = Append(@, [name |-> name, outcome |-> outcome]), !.pc = next_pc]
      ELSE [rp EXCEPT !.steps = Append(@, [name |-> name, outcome |-> outcome]), !.pc = "failed",
                      !.error = outcome]

\* get_report(report_type) is called: report_type not in _report_types raises
CallGetReport ==
    /\ report.pc \in {"idle", "returned", "failed"}
    /\ report.calls < MaxReports
    /\ \E report_type \in ReportTypesAsked :
          report' =
            IF report_type \notin DOMAIN _report_types
              THEN [report EXCEPT !.calls = @ + 1, !.report_type = report_type, !.number = 0,
                                  !.steps = <<>>, !.pc = "failed", !.error = "CompassReportError"]
              ELSE [report EXCEPT !.calls = @ + 1, !.report_type = report_type,
                                  !.number = _report_types[report_type],
                                  !.steps = <<>>, !.pc = "token", !.error = ""]
    /\ UNCHANGED <<dl, pending, emitted, rpc, duration, page, popup, today, debug, call, prev, addr_in, addr_out, given, ret, logon>>

\* run_report_url = scraper.get_report_token(client, auth_ids, number)
GetReportToken ==
    /\ report.pc = "token"
    /\ \E outcome \in StepOutcomes : report' = ReportStep(report, "get_report_token", outcome, "page")
    /\ UNCHANGED <<dl, pending, emitted, rpc, duration, page, popup, today, debug, call, prev, addr_in, addr_out, given, ret, logon>>

\* report_page = scraper.get_report_page(client, run_report_url)
GetReportPage ==
    /\ report.pc = "page"
    /\ \E outcome \in StepOutcomes : report' = ReportStep(report, "get_report_page", outcome, "form")
    /\ UNCHANGED <<dl, pending, emitted, rpc, duration, page, popup, today, debug, call, prev, addr_in, addr_out, given, ret, logon>>

\* scraper.update_form_data(client, report_page, url)
UpdateFormData ==
    /\ report.pc = "form"
    /\ \E outcome \in StepOutcomes : report' = ReportStep(report, "update_form_data", outcome, "export")
    /\ UNCHANGED <<dl, pending, emitted, rpc, duration, page, popup, today, debug, call, prev, addr_in, addr_out, given, ret, logon>>

\* scraper.get_report_export_url(report_page): no request, then
\* scraper.download_report_normal(client, url, params, filename) and return
DownloadReport ==
    /\ report.pc = "export"
    /\ \E parsed \in {"returned", "CompassReportError"}, outcome \in StepOutcomes :
          LET rp == ReportStep(report, "get_report_export_url", parsed, "download")
          IN  report' = IF rp.pc = "download"
                          THEN ReportStep(rp, "download_report_normal", outcome, "returned")
                          ELSE rp
    /\ UNCHANGED <<dl, pending, emitted, rpc, duration, page, popup, today, debug, call, prev, addr_in, addr_out, given, ret, logon>>

InitReports ==
    /\ ReducerIdle
    /\ page = <<>>
    /\ popup = <<>>
    /\ today = 0
    /\ debug = FALSE
    /\ call = <<>>
    /\ prev = <<>>
    /\ addr_in = <<>>
    /\ addr_out = <<>>
    /\ given = <<>>
    /\ ret = <<>>
    /\ logon = <<>>
    /\ report = NewReports

NextReports == CallGetReport \/ GetReportToken \/ GetReportPage \/ UpdateFormData \/ DownloadReport

SpecReports == InitReports /\ [][NextReports]_vars

\* the steps of get_report that send requests, in the order of the claim
ReportOrder == <<"get_report_token", "get_report_page", "update_form_data", "download_report_normal">>

\* the names of the steps run, those that send no request left out
RECURSIVE RequestSteps(_)
RequestSteps(steps) ==
    IF steps = <<>> THEN <<>>
    ELSE (IF Head(steps).name = "get_report_export_url" THEN <<>> ELSE <<Head(steps).name>>)
           \o RequestSteps(Tail(steps))

SixReportNames ==
    {"Region Member Directory", "Region Appointments Report", "Region Permit Report",
     "Region Disclosure Report", "Region Training Report", "Region Disclosure Management Report"}

\* C25: get_report runs get report token, get report page, update form data
\* and the download in this order, a step that raised is the last step of
\* the call, and a report_type that is none of the six names raises
\* CompassReportError before any step.
C25_StepsInOrder ==
    report.calls > 0 =>
        /\ RequestSteps(report.steps) = SubSeq(ReportOrder, 1, Len(RequestSteps(report.steps)))
        /\ \A k \in 1..Len(report.steps) : report.steps[k].outcome # "returned" => k = Len(report.steps)
        /\ report.report_type \notin SixReportNames =>
              report.pc = "failed" /\ report.error = "CompassReportError" /\ report.steps = <<>>
        /\ report.report_type \in SixReportNames /\ report.steps = <<>> => report.pc = "token"
        /\ report.pc = "returned" => RequestSteps(report.steps) = ReportOrder

\* a second call that failed in update_form_data after a first call
C25_Witness ==
    /\ report.calls = 2
    /\ report.pc = "failed"
    /\ report.error = "CompassReportPermissionError"
    /\ RequestSteps(report.steps) = SubSeq(ReportOrder, 1, 3)

-----------------------------------------------------------------------------
(* The scan of one pass of _reduce_date_list *)

\* the running range after the first k pairs of sdl
RECURSIVE ScanTo(_, _)
ScanTo(sdl, k) ==
    IF k = 0 THEN [start_ |-> sdl[1][1], end_ |-> sdl[1][2], unused_values |-> {}]
    ELSE ScanStep(ScanTo(sdl, k - 1), sdl[k], k)

\* the argument of the k-th level of the recursion on dl
RECURSIVE PassInput(_)
PassInput(k) == IF k = 1 THEN dl ELSE ReducePassOf(PassInput(k - 1)).rest

\* C26: in a pass over the pairs sorted by start, the running start_ is the
\* start of the first sorted pair after every pair of the scan, and the
\* interval the pass yields covers the first sorted pair and starts at the
\* least start of the input of the pass.
C26_StartStays ==
    \A p \in 1..Len(emitted) :
        LET input == PassInput(p)
            sdl == Sorted(input)
            range == emitted[p]
        IN  /\ \A k \in 0..Len(sdl) : ScanTo(sdl, k).start_ = sdl[1][1]
            /\ range[1] <= sdl[1][1] /\ sdl[1][2] <= range[2]
            /\ \A j \in 1..Len(input) : range[1] <= input[j][1]
            /\ \E j \in 1..Len(input) : range[1] = input[j][1]

\* the first pass took three pairs given out of order: its second sorted
\* pair extended the range and its third was left to the second pass
C26_Witness ==
    /\ Len(emitted) = 2
    /\ Len(dl) = 3
    /\ dl # Sorted(dl)
    /\ emitted[1][2] > Sorted(dl)[1][2]
    /\ emitted[2] = Sorted(dl)[3]

-----------------------------------------------------------------------------
(* Termination of _reduce_date_list *)

\* the indexes of the sorted argument that the scan of one level marked
MarkedOf(input) == ScanTo(Sorted(input), Len(input)).unused_values

\* one level: it was given input, sorted it to sdl and marked the indexes in
\* marked; next is the argument of the level after it
LevelWellFounded(sdl, marked, next) ==
    /\ 1 \notin marked
    /\ marked \subseteq 2..Len(sdl)
    /\ \A i \in marked : \A j \in (i + 1)..Len(sdl) : j \in marked
    /\ Len(next) = Cardinality(marked)
    /\ Len(next) < Len(sdl)
    /\ \A k \in 1..Len(next) : \E i \in marked : next[k] = sdl[i]

\* C27: _reduce_date_list terminates on every non-empty input: a level never
\* marks its first sorted pair, marks every pair after a marked one, recurses
\* on the marked pairs alone, fewer than it was given, and stops when there
\* is none; the intervals come out in strictly ascending order and are no
\* more than the pairs given.
C27_LevelsWellFounded ==
    /\ \A p \in 1..Len(emitted) :
          LevelWellFounded(Sorted(PassInput(p)), MarkedOf(PassInput(p)), PassInput(p + 1))
    /\ emitted # <<>> =>
          /\ pending = PassInput(Len(emitted) + 1)
          /\ (rpc \in {"exhausted", "done"}) <=> (pending = <<>>)
    /\ \A k \in 1..(Len(emitted) - 1) : emitted[k][2] < emitted[k + 1][1]
    /\ Len(emitted) + Len(pending) <= Len(dl)

\* three levels have run on three pairs, the first of them leaving two
C27_Witness ==
    /\ rpc = "done"
    /\ Len(dl) = 3
    /\ Len(emitted) = 3
    /\ Cardinality(MarkedOf(dl)) = 2

-----------------------------------------------------------------------------
(* membership_duration and the output filters of get_roles_tab *)

\* one Roles page parsed twice, by calls that differ in their filters, on the
\* same day or on the next
InitFilters ==
    /\ ReducerIdle
    /\ page \in UNION {RolesPagesOf(101, FewContents, {FALSE}, n) : n \in 0..MaxRows}
    /\ popup = NoPopup
    /\ today \in Todays
    /\ debug = FALSE
    /\ call = NoCall
    /\ prev = NoCall
    /\ addr_in = <<>>
    /\ addr_out = <<>>
    /\ given = <<>>
    /\ ret = <<>>
    /\ logon = <<>>
    /\ report = <<>>

NextFilters ==
    \/ GetRolesTab
    \/ Remember
    \/ AdvanceDay

SpecFilters == InitFilters /\ [][NextFilters]_vars

\* two calls of get_roles_tab on the page, both on the same day
ParsedTwiceSameDay ==
    /\ prev.parser = "get_roles_tab"
    /\ call.parser = "get_roles_tab"
    /\ prev.today = call.today

\* C28: two calls of get_roles_tab on the same Roles page and the same day
\* give the same membership_duration whatever keep_non_volunteer_roles and
\* statuses each was given, and one raises exactly when the other does.
C28_DurationIgnoresFilters ==
    ParsedTwiceSameDay =>
        /\ prev.kind = call.kind
        /\ prev.membership_duration = call.membership_duration

\* both calls returned, they differed in both filters, and the later one left
\* out of its mapping a volunteer role that is not cancelled
C28_Witness ==
    /\ ParsedTwiceSameDay
    /\ call.kind = "MemberRolesCollection"
    /\ prev.keep # call.keep
    /\ prev.statuses = <<>>
    /\ call.statuses # <<>>
    /\ \E j \in 1..Len(page.rows) :
          /\ ~RowNonVolunteer(page.rows[j])
          /\ RowStatus(page.rows[j]) # S_Cancelled
          /\ page.rows[j].data_pk \in DOMAIN prev.roles
          /\ page.rows[j].data_pk \notin DOMAIN call.roles

-----------------------------------------------------------------------------
(* change_role: the role is confirmed before it is reported *)

\* the requests sent on the session of the do_logon under way
RequestsNow == RequestsOn(logon.requests, logon.session)

ChangeRoleSent == \E k \in 1..Len(RequestsNow) : RequestsNow[k].url = "/API/ChangeRole"

HeadersNow == logon.sessions[logon.session].headers

\* C29: when change_role has returned, the role selected on the portal page
\* read again, Master.User.MRN and the MRN of the Authorization header are
\* the role number asked for; when the selected role is another one,
\* confirm_success_and_update raises "Role failed to update in Compass" and
\* compass_dict and the headers of the session are what they were before; a
\* role name that the roles mapping lacks fails with no ChangeRole request
\* sent.
C29_RoleConfirmed ==
    /\ logon.pc = "done" /\ logon.check_role_number # <<>> =>
          /\ logon.check_role_number[1] = Lookup(create_roles_dict(RoleOptions), Strip(logon.role_to_use))
          /\ logon.page # <<>>
          /\ logon.page[1].selected = logon.check_role_number[1]
          /\ Lookup(logon.compass_dict, "Master.User.MRN") = logon.check_role_number[1]
          /\ HeadersNow.Authorization =
                Some(Lookup(logon.compass_dict, "Master.User.CN") \o <<"~">> \o logon.check_role_number[1])
    /\ (/\ logon.pc = "failed"
        /\ logon.check_role_number # <<>>
        /\ logon.page # <<>>
        /\ logon.page[1].selected # logon.check_role_number[1]) =>
          /\ logon.error = "Role failed to update in Compass"
          /\ logon.compass_dict = logon.before[1].compass_dict
          /\ HeadersNow = logon.before[1].headers
    /\ logon.error = "Role failed to update in Compass" =>
          logon.page[1].selected # logon.check_role_number[1]
    /\ (/\ logon.page # <<>>
        /\ logon.role_to_use # <<>>
        /\ ~HasKey(logon.roles_dict, Strip(logon.role_to_use))) =>
          /\ ~ChangeRoleSent
          /\ logon.pc = "failed" => logon.error = "KeyError"
          /\ logon.pc \in {"confirmed", "failed"}

\* a first do_logon changed the role; in the second the portal kept another
\* role selected, on a page whose properties differ from the ones held
C29_Witness ==
    /\ logon.logons = 2
    /\ logon.error = "Role failed to update in Compass"
    /\ Len(RequestsOn(logon.requests, 1)) = 5
    /\ logon.compass_dict # create_compass_dict(logon.page[1].post_ctrl)
    /\ logon.before[1].headers.Authorization # <<>>

-----------------------------------------------------------------------------
(* do_logon: the order of its requests *)

\* the requests of a do_logon that runs to its end with a role to use
LogonOrder ==
    << [method |-> "HEAD", url |-> "/"],
       [method |-> "POST", url |-> "/Login.ashx"],
       [method |-> "GET", url |-> "/ScoutsPortal.aspx"],
       [method |-> "POST", url |-> "/API/ChangeRole"],
       [method |-> "GET", url |-> "/ScoutsPortal.aspx"] >>

RequestsSentOn(id) ==
    [k \in 1..Len(RequestsOn(logon.requests, id)) |->
        [method |-> RequestsOn(logon.requests, id)[k].method, url |-> RequestsOn(logon.requests, id)[k].url]]

\* how many requests a do_logon has sent when it is at pc, or failed with error
RequestsAt(pc, error, role_given) ==
    CASE pc = "created" -> 1
      [] pc = "posted" -> 2
      [] pc = "confirmed" -> 3
      [] pc = "role_posted" -> 4
      [] pc = "done" -> IF role_given THEN 5 ELSE 3
      [] pc = "failed" /\ error = "No cookie found, terminating." -> 1
      [] pc = "failed" /\ error \in {"Login has failed", "KeyError"} -> 3
      [] pc = "failed" -> 5
      [] OTHER -> 0

\* C30: the requests of a do_logon are, in this order, HEAD of the base URL,
\* POST of Login.ashx, GET of ScoutsPortal.aspx and, with a role to use
\* alone, POST of API/ChangeRole and a second GET of ScoutsPortal.aspx; a step
\* that fails is the last to send a request; the credentials are posted on
\* the session create_session has just made; total_requests counts every
\* request.
C30_RequestOrder ==
    /\ \A id \in 1..Len(logon.sessions) :
          /\ Len(RequestsSentOn(id)) \in 1..Len(LogonOrder)
          /\ RequestsSentOn(id) = SubSeq(LogonOrder, 1, Len(RequestsSentOn(id)))
    /\ \A i \in 1..Len(logon.requests) : \A j \in i..Len(logon.requests) :
          logon.requests[i].session <= logon.requests[j].session
    /\ logon.logons > 0 =>
          /\ Len(RequestsNow) = RequestsAt(logon.pc, logon.error, logon.role_to_use # <<>>)
          /\ Len(RequestsNow) > 3 => logon.role_to_use # <<>>
          /\ logon.error = "No cookie found, terminating." <=>
                (logon.sessions[logon.session].cookies = {})
    /\ \A i \in 1..Len(logon.requests) :
          logon.requests[i].url = "/Login.ashx" =>
              /\ i > 1
              /\ logon.requests[i - 1].method = "HEAD"
              /\ logon.requests[i - 1].session = logon.requests[i].session
              /\ logon.requests[i].session = Cardinality({k \in 1..i : logon.requests[k].method = "HEAD"})
    /\ logon.total_requests = Len(logon.requests)

\* a do_logon that changed the role was followed by one with no role to use
C30_Witness ==
    /\ logon.pc = "done"
    /\ logon.logons = 2
    /\ logon.role_to_use = <<>>
    /\ Len(RequestsOn(logon.requests, 1)) = 5
    /\ logon.total_requests = 8

=============================================================================
